---- MODULE Spec2Model ----
(***************************************************************************)
(* The streaming tool-execution loop of the chat interface                 *)
(* (ChatInterfaceWithAgent): the bounded chat history, the debounced       *)
(* streaming buffer with its timer, and the event loop of                  *)
(* processInitialMessage that consumes the agent's stream.                 *)
(*                                                                         *)
(* Text is modelled by TLA+ strings, so that concatenation is real         *)
(* concatenation.  React state updaters are applied in the order they are  *)
(* queued, so each handler is one atomic step.                             *)
(***************************************************************************)
EXTENDS Integers, Sequences, FiniteSets, TLC

VARIABLES
    chatHistory,             \* useState<ChatEntry[]>
    isProcessing,            \* useState(false)
    isStreaming,             \* useState(false): the renderer-visible indicator
    tokenCount,              \* useState(0)
    streamingContentBuffer,  \* useRef<string>("")
    streamingUpdateTimer,    \* useRef<Timeout | null>: "null", "armed", "cleared"
    streamingEntry,          \* the loop's local: is a streaming entry active
    pc,                      \* position of processInitialMessage
    chunk,                   \* the event the loop consumed last
    trace,                   \* the types of the events consumed so far, in order
    received,                \* concatenation of every delta the stream delivered
    effectStreaming,         \* isStreaming as seen by the last run of the cleanup effect
    appended,                \* number of entries handed to addToHistory (history store runs)
    confirmationOptions,     \* useState<ConfirmationOptions | null>(null)
    commandHistory,          \* CommandRateLimiter.commandHistory
    maxCommandsPerMinute,    \* CommandRateLimiter.maxCommandsPerMinute
    windowMs,                \* CommandRateLimiter.windowMs
    now,                     \* Date.now()
    rateLog,                 \* canExecute calls since construction or reset: time and return value
    resetFrom,               \* the last reset(): its time and how many entries it dropped
    stats,                   \* the last getStats since the last reset: its return value and
                             \* the number of canExecute calls made before it
    bashPc,                  \* BashTool.execute: "idle", "confirming" (awaiting the decision)
                             \* or "running" (awaiting the child process)
    bashCommand,             \* the command of the current or last execute call
    bashFlags,               \* session flags read by the current or last execute call
    bashEvents,              \* what the current or last execute call did, in order
    bashResult,              \* the ToolResult returned by the last execute call
    sessionFlags,            \* ConfirmationService session flags
    currentDirectory,        \* BashTool.currentDirectory
    confirmationResult,      \* the decision the awaited requestConfirmation resolved with
    processingTime,          \* useState(0): elapsed seconds shown by the spinner
    processingStartTime,     \* useRef<number>(0)
    called,                  \* the pure function applied last, "" before any call
    argument,                \* the string it is applied to
    returned,                \* what it returned
    pendingTimeouts,         \* the setTimeout callbacks that are scheduled and not cleared
    timerHandle              \* the handle streamingUpdateTimer.current holds, if any

loopVars == <<chatHistory, isProcessing, isStreaming, tokenCount, streamingContentBuffer,
              streamingUpdateTimer, streamingEntry, pc, chunk, trace, received,
              effectStreaming, appended>>

rateVars == <<commandHistory, maxCommandsPerMinute, windowMs, now, rateLog, resetFrom, stats>>

bashVars == <<bashPc, bashCommand, bashFlags, bashEvents, bashResult, sessionFlags,
              currentDirectory, confirmationResult>>

timeVars == <<processingTime, processingStartTime>>

callVars == <<called, argument, returned>>

otherVars == <<confirmationOptions, rateVars, bashVars, timeVars, callVars>>

timerVars == <<pendingTimeouts, timerHandle>>

vars == <<loopVars, otherVars, timerVars>>

-----------------------------------------------------------------------------
(* Bounds of the model and constants of the program *)

MaxEvents == 4

MaxAppends == 103

MaxBatch == 3

HistoryCap == 100

ToolIds == {"t1", "t2"}

-----------------------------------------------------------------------------
(* Data *)

None == <<>>

Some(v) == <<v>>

Entry(type, content, streaming) ==
    [type |-> type, content |-> content, isStreaming |-> streaming,
     toolCall |-> None, toolCalls |-> None, toolResult |-> None]

UserEntry == Entry("user", "hi", FALSE)

ToolResults ==
    { [success |-> TRUE, output |-> o, error |-> ""] : o \in {"", "out"} }
    \cup { [success |-> FALSE, output |-> "", error |-> e] : e \in {"", "err"} }

CallLists == {<<>>, <<"t1">>, <<"t2">>, <<"t1", "t2">>, <<"t2", "t1">>, <<"t1", "t1">>}

NoChunk ==
    [type |-> "none", content |-> "", tokenCount |-> None, toolCalls |-> None,
     toolCall |-> None, toolResult |-> None]

-----------------------------------------------------------------------------
(* History store *)

(* mutant: the cap keeps the oldest entries instead of the newest *)
SizeLimitedKeepsOldest(next) ==
    IF Len(next) > HistoryCap THEN SubSeq(next, 1, HistoryCap) ELSE next

SizeLimited(next) ==
    IF Len(next) > HistoryCap
    THEN SubSeq(next, Len(next) - HistoryCap + 1, Len(next))
    ELSE next

AddToHistory(prev, newEntries) == SizeLimited(prev \o newEntries)

-----------------------------------------------------------------------------
(* Coalescer *)

(* mutant: a flush appends to the last entry whether it is streaming or not *)
FlushEntryAnyLast(prev, i, content) ==
    IF i = Len(prev)
    THEN [prev[i] EXCEPT !.content = @ \o content]
    ELSE prev[i]

(* mutant: a flush overwrites the streaming entry's content *)
FlushEntryOverwrites(prev, i, content) ==
    IF i = Len(prev) /\ prev[i].isStreaming
    THEN [prev[i] EXCEPT !.content = content]
    ELSE prev[i]

FlushEntry(prev, i, content) ==
    IF i = Len(prev) /\ prev[i].isStreaming
    THEN [prev[i] EXCEPT !.content = @ \o content]
    ELSE prev[i]

FlushedHistory(prev, buffer) ==
    IF buffer # ""
    THEN SizeLimited([i \in 1..Len(prev) |-> FlushEntry(prev, i, buffer)])
    ELSE prev

(* mutant: a flush forgets to empty the buffer *)
FlushedBufferKept(buffer) == buffer

FlushedBuffer(buffer) == IF buffer # "" THEN "" ELSE buffer

StopStreamingEntry(entry) ==
    IF entry.isStreaming THEN [entry EXCEPT !.isStreaming = FALSE] ELSE entry

StopStreaming(prev) ==
    SizeLimited([i \in 1..Len(prev) |-> StopStreamingEntry(prev[i])])

-----------------------------------------------------------------------------

DefaultMaxCommands == 30
DefaultWindowMs == 60000

RateIdle ==
    /\ commandHistory = <<>>
    /\ maxCommandsPerMinute = DefaultMaxCommands
    /\ windowMs = DefaultWindowMs
    /\ now = 0
    /\ rateLog = <<>>
    /\ resetFrom = None
    /\ stats = None

NoFlags == [bashCommands |-> FALSE, allOperations |-> FALSE]

BashIdle ==
    /\ bashPc = "idle"
    /\ bashCommand = ""
    /\ bashFlags = NoFlags
    /\ bashEvents = <<>>
    /\ bashResult = None
    /\ sessionFlags = NoFlags
    /\ currentDirectory = "/home"
    /\ confirmationResult = None

TimeIdle ==
    /\ processingTime = 0
    /\ processingStartTime = 0

CallIdle ==
    /\ called = ""
    /\ argument = ""
    /\ returned = None

TimerIdle ==
    /\ pendingTimeouts = {}
    /\ timerHandle = None

OthersIdle ==
    /\ confirmationOptions = None
    /\ RateIdle
    /\ BashIdle
    /\ TimeIdle
    /\ CallIdle
    /\ TimerIdle

Init ==
    /\ chatHistory = <<UserEntry>>
    /\ isProcessing = FALSE
    /\ isStreaming = FALSE
    /\ tokenCount = 0
    /\ streamingContentBuffer = ""
    /\ streamingUpdateTimer = "null"
    /\ streamingEntry = FALSE
    /\ pc = "start"
    /\ chunk = NoChunk
    /\ trace = <<>>
    /\ received = ""
    /\ effectStreaming = FALSE
    /\ appended = 0
    /\ OthersIdle

Start ==
    /\ pc = "start"
    /\ pc' = "loop"
    /\ isProcessing' = TRUE
    /\ isStreaming' = TRUE
    /\ UNCHANGED <<chatHistory, tokenCount, streamingContentBuffer, streamingUpdateTimer,
                   streamingEntry, chunk, trace, received, effectStreaming, appended>>
    /\ UNCHANGED <<otherVars, timerVars>>

-----------------------------------------------------------------------------
(* The event loop of processInitialMessage: one action per case of the switch *)

CanConsume == pc = "loop" /\ Len(trace) < MaxEvents

ContentChunk(d) == [NoChunk EXCEPT !.type = "content", !.content = d]

(* mutant: the new entry is not marked as streaming *)
NewEntryNotStreaming(d) == Entry("assistant", d, FALSE)

NewStreamingEntry(d) == Entry("assistant", d, TRUE)

StreamingUpdateDelay == 50

(* the callback setTimeout schedules for a delta buffered as the setAt-th event *)
Timeout(setAt) == [setAt |-> setAt, delay |-> StreamingUpdateDelay]

(* if (streamingUpdateTimer.current) clearTimeout(streamingUpdateTimer.current) *)
ClearTimeout(pending, handle) ==
    IF handle = None THEN pending ELSE pending \ {handle[1]}

(* mutant: the pending timer is not cancelled before the new one is started *)
RestartedTimeoutsUncleared(pending, handle, timeout) == pending \cup {timeout}

RestartedTimeouts(pending, handle, timeout) ==
    ClearTimeout(pending, handle) \cup {timeout}

(* case "content" for an event that arrives at the moment `at` with one of *)
(* the texts of `deltas`                                                    *)
ContentEvent(at, deltas) ==
    /\ CanConsume
    /\ \E d \in deltas :
        /\ chunk' = ContentChunk(d)
        /\ received' = received \o d
        /\ IF d = ""
           THEN UNCHANGED <<chatHistory, streamingEntry, streamingContentBuffer,
                            streamingUpdateTimer, timerVars>>
           ELSE IF ~streamingEntry
           THEN /\ chatHistory' = AddToHistory(chatHistory, <<NewStreamingEntry(d)>>)
                /\ streamingEntry' = TRUE
                /\ UNCHANGED <<streamingContentBuffer, streamingUpdateTimer, timerVars>>
           ELSE /\ streamingContentBuffer' = streamingContentBuffer \o d
                /\ streamingUpdateTimer' = "armed"
                /\ pendingTimeouts' = RestartedTimeouts(pendingTimeouts, timerHandle,
                                                        Timeout(at))
                /\ timerHandle' = Some(Timeout(at))
                /\ UNCHANGED <<chatHistory, streamingEntry>>
    /\ trace' = Append(trace, chunk'.type)
    /\ UNCHANGED <<isProcessing, isStreaming, tokenCount, pc, effectStreaming, appended>>
    /\ UNCHANGED otherVars

(* in the stream loop the moment of an event is its position in the stream *)
OnContent == ContentEvent(Len(trace) + 1, {"", ToString(Len(trace) + 1)})

OnTokenCount ==
    /\ CanConsume
    /\ \E tc \in {None, Some(1)} :
        /\ chunk' = [NoChunk EXCEPT !.type = "token_count", !.tokenCount = tc]
        /\ tokenCount' = IF tc # None THEN tc[1] ELSE tokenCount
    /\ trace' = Append(trace, chunk'.type)
    /\ UNCHANGED <<chatHistory, isProcessing, isStreaming, streamingContentBuffer,
                   streamingUpdateTimer, streamingEntry, pc, received, effectStreaming,
                   appended>>
    /\ UNCHANGED <<otherVars, timerVars>>

AttachToolCalls(entry, calls) ==
    IF entry.isStreaming
    THEN [entry EXCEPT !.isStreaming = FALSE, !.toolCalls = Some(calls)]
    ELSE entry

ToolCallEntry(toolCall) ==
    [Entry("tool_call", "Executing...", FALSE) EXCEPT !.toolCall = Some(toolCall)]

ToolCallEntries(calls) == [k \in 1..Len(calls) |-> ToolCallEntry(calls[k])]

(* mutant: the streaming entry is stopped before the buffer is flushed *)
ToolCallsHistoryStopsFirst(prev, buffer, calls) ==
    LET stopped == SizeLimited([i \in 1..Len(prev) |-> AttachToolCalls(prev[i], calls)])
        flushed == FlushedHistory(stopped, buffer)
    IN  AddToHistory(flushed, ToolCallEntries(calls))

ToolCallsHistory(prev, buffer, calls) ==
    LET flushed == FlushedHistory(prev, buffer)
        stopped == SizeLimited([i \in 1..Len(flushed) |->
                                    AttachToolCalls(flushed[i], calls)])
    IN  AddToHistory(stopped, ToolCallEntries(calls))

ToolCallsEvent(lists) ==
    /\ CanConsume
    /\ \E tcs \in {None} \cup {Some(c) : c \in lists} :
        /\ chunk' = [NoChunk EXCEPT !.type = "tool_calls", !.toolCalls = tcs]
        /\ IF tcs # None
           THEN /\ streamingUpdateTimer' = "null"
                /\ pendingTimeouts' = ClearTimeout(pendingTimeouts, timerHandle)
                /\ timerHandle' = None
                /\ streamingContentBuffer' = FlushedBuffer(streamingContentBuffer)
                /\ chatHistory' =
                       ToolCallsHistory(chatHistory, streamingContentBuffer, tcs[1])
                /\ streamingEntry' = FALSE
           ELSE UNCHANGED <<chatHistory, streamingEntry, streamingContentBuffer,
                            streamingUpdateTimer, timerVars>>
    /\ trace' = Append(trace, chunk'.type)
    /\ UNCHANGED <<isProcessing, isStreaming, tokenCount, pc, received, effectStreaming,
                   appended>>
    /\ UNCHANGED otherVars

OnToolCalls == ToolCallsEvent(CallLists)

(* mutant: no default text for an empty output or error *)
ResultContentRaw(toolResult) ==
    IF toolResult.success THEN toolResult.output ELSE toolResult.error

ResultContent(toolResult) ==
    IF toolResult.success
    THEN (IF toolResult.output # "" THEN toolResult.output ELSE "Success")
    ELSE (IF toolResult.error # "" THEN toolResult.error ELSE "Error occurred")

(* mutant: a tool_result leaves the streaming flag alone *)
ToolResultEntryKeepsStreaming(entry, id, toolResult) ==
    IF entry.type = "tool_call" /\ entry.toolCall = Some(id)
    THEN [entry EXCEPT !.type = "tool_result",
                       !.content = ResultContent(toolResult),
                       !.toolResult = Some(toolResult)]
    ELSE entry

(* mutant: a tool_result replaces every tool_call entry, whatever its id *)
ToolResultEntryAnyId(entry, id, toolResult) ==
    IF entry.isStreaming
    THEN [entry EXCEPT !.isStreaming = FALSE]
    ELSE IF entry.type = "tool_call"
    THEN [entry EXCEPT !.type = "tool_result",
                       !.content = ResultContent(toolResult),
                       !.toolResult = Some(toolResult)]
    ELSE entry

ToolResultEntry(entry, id, toolResult) ==
    IF entry.isStreaming
    THEN [entry EXCEPT !.isStreaming = FALSE]
    ELSE IF entry.type = "tool_call" /\ entry.toolCall = Some(id)
    THEN [entry EXCEPT !.type = "tool_result",
                       !.content = ResultContent(toolResult),
                       !.toolResult = Some(toolResult)]
    ELSE entry

ToolResultHistory(prev, id, toolResult) ==
    SizeLimited([i \in 1..Len(prev) |-> ToolResultEntry(prev[i], id, toolResult)])

OnToolResult ==
    /\ CanConsume
    /\ \E id \in {None} \cup {Some(i) : i \in ToolIds},
          r \in {None} \cup {Some(x) : x \in ToolResults} :
        /\ (id = None) = (r = None)
        /\ chunk' = [NoChunk EXCEPT !.type = "tool_result", !.toolCall = id,
                                    !.toolResult = r]
        /\ IF id # None /\ r # None
           THEN /\ chatHistory' =
                       ToolResultHistory(chatHistory, id[1], r[1])
                /\ streamingEntry' = FALSE
           ELSE UNCHANGED <<chatHistory, streamingEntry>>
    /\ trace' = Append(trace, chunk'.type)
    /\ UNCHANGED <<isProcessing, isStreaming, tokenCount, streamingContentBuffer,
                   streamingUpdateTimer, pc, received, effectStreaming, appended>>
    /\ UNCHANGED <<otherVars, timerVars>>

(* mutant: done flushes but leaves the streaming flag set *)
DoneHistoryNoStop(prev, buffer, active) == FlushedHistory(prev, buffer)

DoneHistory(prev, buffer, active) ==
    LET flushed == FlushedHistory(prev, buffer)
    IN  IF active THEN StopStreaming(flushed) ELSE flushed

OnDone ==
    /\ CanConsume
    /\ chunk' = [NoChunk EXCEPT !.type = "done"]
    /\ streamingUpdateTimer' = "null"
    /\ pendingTimeouts' = ClearTimeout(pendingTimeouts, timerHandle)
    /\ timerHandle' = None
    /\ streamingContentBuffer' = FlushedBuffer(streamingContentBuffer)
    /\ chatHistory' = DoneHistory(chatHistory, streamingContentBuffer, streamingEntry)
    /\ isStreaming' = FALSE
    /\ trace' = Append(trace, chunk'.type)
    /\ UNCHANGED <<isProcessing, tokenCount, streamingEntry, pc, received,
                   effectStreaming, appended>>
    /\ UNCHANGED otherVars

(* The stream is exhausted: the loop falls through to the end of the function. *)
StreamEnds ==
    /\ pc = "loop"
    /\ pc' = "finished"
    /\ isProcessing' = FALSE
    /\ UNCHANGED <<chatHistory, isStreaming, tokenCount, streamingContentBuffer,
                   streamingUpdateTimer, streamingEntry, chunk, trace, received,
                   effectStreaming, appended>>
    /\ UNCHANGED <<otherVars, timerVars>>

ErrorEntry == Entry("assistant", "Error: " \o "fault", FALSE)

CatchHistory(prev) == AddToHistory(prev, <<ErrorEntry>>)

(* The stream throws instead of yielding: the catch block. *)
Fault ==
    /\ pc = "loop"
    /\ pc' = "finished"
    /\ chatHistory' = CatchHistory(chatHistory)
    /\ isStreaming' = FALSE
    /\ isProcessing' = FALSE
    /\ chunk' = [NoChunk EXCEPT !.type = "fault"]
    /\ UNCHANGED <<tokenCount, streamingContentBuffer, streamingUpdateTimer,
                   streamingEntry, trace, received, effectStreaming, appended>>
    /\ UNCHANGED <<otherVars, timerVars>>

-----------------------------------------------------------------------------
(* Callbacks that run between two events *)

(* The setTimeout callback scheduled by a buffered content event. *)
TimerFiresFor(due) ==
    /\ \E timeout \in due :
          pendingTimeouts' = pendingTimeouts \ {timeout}
    /\ chatHistory' = FlushedHistory(chatHistory, streamingContentBuffer)
    /\ streamingContentBuffer' = FlushedBuffer(streamingContentBuffer)
    /\ streamingUpdateTimer' = "null"
    /\ timerHandle' = None
    /\ UNCHANGED <<isProcessing, isStreaming, tokenCount, streamingEntry, pc, chunk,
                   trace, received, effectStreaming, appended>>
    /\ UNCHANGED otherVars

TimerFires == TimerFiresFor(pendingTimeouts)

(* The cleanup effect on [isStreaming]: React runs the previous run's cleanup *)
(* (clearTimeout without resetting the ref, flush), then the effect body.     *)
(* the cleanup of the previous run flushes when the ref holds a timer; the   *)
(* body flushes again when streaming has stopped and the ref still holds it. *)
EffectHistory(prev, buffer, timer, streaming) ==
    LET cleaned == IF timer # "null" THEN FlushedHistory(prev, buffer) ELSE prev
        rest    == IF timer # "null" THEN FlushedBuffer(buffer) ELSE buffer
    IN  IF ~streaming /\ timer # "null" THEN FlushedHistory(cleaned, rest) ELSE cleaned

(* The cleanup clearing the timeout and leaving the buffer as it is. *)
EffectBufferKept(buffer, timer, streaming) == buffer

EffectBuffer(buffer, timer, streaming) ==
    LET rest == IF timer # "null" THEN FlushedBuffer(buffer) ELSE buffer
    IN  IF ~streaming /\ timer # "null" THEN FlushedBuffer(rest) ELSE rest

EffectTimer(timer, streaming) ==
    IF timer = "null" THEN "null" ELSE IF streaming THEN "cleared" ELSE "null"

StreamingEffect ==
    /\ isStreaming # effectStreaming
    /\ effectStreaming' = isStreaming
    /\ chatHistory' = EffectHistory(chatHistory, streamingContentBuffer,
                                    streamingUpdateTimer, isStreaming)
    /\ streamingContentBuffer' = EffectBuffer(streamingContentBuffer,
                                              streamingUpdateTimer, isStreaming)
    /\ streamingUpdateTimer' = EffectTimer(streamingUpdateTimer, isStreaming)
    /\ pendingTimeouts' = ClearTimeout(pendingTimeouts, timerHandle)
    /\ timerHandle' = IF EffectTimer(streamingUpdateTimer, isStreaming) = "null"
                      THEN None ELSE timerHandle
    /\ UNCHANGED <<isProcessing, isStreaming, tokenCount, streamingEntry, pc, chunk,
                   trace, received, appended>>
    /\ UNCHANGED otherVars

Next ==
    \/ Start
    \/ OnContent
    \/ OnTokenCount
    \/ OnToolCalls
    \/ OnToolResult
    \/ OnDone
    \/ StreamEnds
    \/ Fault
    \/ TimerFires
    \/ StreamingEffect

Spec == Init /\ [][Next]_vars

-----------------------------------------------------------------------------
(* The history store on its own: any caller appending through addToHistory   *)
(* and updating through sizeLimitedSetChatHistory, far enough to pass the    *)
(* cap.  The k-th entry ever appended carries the text of k.                 *)

InitHist ==
    /\ chatHistory = <<>>
    /\ isProcessing = FALSE
    /\ isStreaming = FALSE
    /\ tokenCount = 0
    /\ streamingContentBuffer = ""
    /\ streamingUpdateTimer = "null"
    /\ streamingEntry = FALSE
    /\ pc = "start"
    /\ chunk = NoChunk
    /\ trace = <<>>
    /\ received = ""
    /\ effectStreaming = FALSE
    /\ appended = 0
    /\ OthersIdle

AnyStreaming(h) == \E i \in 1..Len(h) : h[i].isStreaming

Batch(first, k, streaming) ==
    [j \in 1..k |-> Entry("assistant", ToString(first + j), streaming /\ j = k)]

HistAppend ==
    /\ \E k \in 1..MaxBatch, streaming \in BOOLEAN :
        /\ appended + k <= MaxAppends
        /\ streaming => ~AnyStreaming(chatHistory)
        /\ chatHistory' = AddToHistory(chatHistory, Batch(appended, k, streaming))
        /\ appended' = appended + k
    /\ UNCHANGED <<isProcessing, isStreaming, tokenCount, streamingContentBuffer,
                   streamingUpdateTimer, streamingEntry, pc, chunk, trace, received,
                   effectStreaming>>
    /\ UNCHANGED <<otherVars, timerVars>>

HistUpdate ==
    /\ AnyStreaming(chatHistory)
    /\ chatHistory' = StopStreaming(chatHistory)
    /\ UNCHANGED <<isProcessing, isStreaming, tokenCount, streamingContentBuffer,
                   streamingUpdateTimer, streamingEntry, pc, chunk, trace, received,
                   effectStreaming, appended>>
    /\ UNCHANGED <<otherVars, timerVars>>

NextHist == HistAppend \/ HistUpdate

SpecHist == InitHist /\ [][NextHist]_vars

-----------------------------------------------------------------------------
(* The stream loop at the cap: the same loop, with a tool_calls event that   *)
(* carries enough calls to fill the history in one step.                     *)

BurstCalls == [k \in 1..(HistoryCap - 1) |-> "t1"]

OnToolCallsBurst == ToolCallsEvent({BurstCalls})

NextCap ==
    \/ Start
    \/ OnContent
    \/ OnToolCallsBurst
    \/ OnToolResult
    \/ OnDone
    \/ StreamEnds
    \/ Fault
    \/ TimerFires
    \/ StreamingEffect

SpecCap == Init /\ [][NextCap]_vars

-----------------------------------------------------------------------------
(* Properties *)

StreamingIndices(h) == {i \in 1..Len(h) : h[i].isStreaming}

RECURSIVE AssistantText(_)
AssistantText(h) ==
    IF h = <<>> THEN ""
    ELSE (IF Head(h).type = "assistant" THEN Head(h).content ELSE "")
         \o AssistantText(Tail(h))

ContentThenDone ==
    /\ chunk.type = "done"
    /\ trace # <<>>
    /\ \A i \in 1..Len(trace) :
          trace[i] = (IF i = Len(trace) THEN "done" ELSE "content")

(* C1: after content events followed by done, whatever timer firings came   *)
(* in between, the history holds the user entry and (when some delta was    *)
(* non-empty) one assistant entry whose content is the concatenation of all *)
(* deltas in arrival order.                                                 *)
C1_ContentIsConcatenation ==
    ContentThenDone =>
        IF received = ""
        THEN chatHistory = <<UserEntry>>
        ELSE /\ Len(chatHistory) = 2
             /\ chatHistory[1] = UserEntry
             /\ chatHistory[2] = Entry("assistant", received, FALSE)

C1_Witness ==
    /\ ContentThenDone
    /\ trace = <<"content", "content", "content", "done">>
    /\ received = "123"

(* C2 as claimed: whenever nothing is buffered, the text of the assistant   *)
(* entries of the history is the concatenation of all deltas received, in   *)
(* arrival order (no fault has been caught, so no error entry is counted).  *)
C2_NoDeltaDropped ==
    (chunk.type # "fault" /\ streamingContentBuffer = "")
        => AssistantText(chatHistory) = received

(* C3: the history never exceeds the cap and is always the last             *)
(* min(appended, cap) entries appended, in their original order.            *)
C3_LastHundred ==
    /\ Len(chatHistory) <= HistoryCap
    /\ Len(chatHistory) = (IF appended > HistoryCap THEN HistoryCap ELSE appended)
    /\ \A i \in 1..Len(chatHistory) :
          chatHistory[i].content = ToString(appended - Len(chatHistory) + i)

C3_Witness ==
    /\ appended > HistoryCap + 1
    /\ Len(chatHistory) = HistoryCap
    /\ chatHistory[1].content = ToString(appended - HistoryCap + 1)

(* C4: at most one history entry has isStreaming = true. *)
C4_AtMostOneStreaming == Cardinality(StreamingIndices(chatHistory)) <= 1

C4_Witness ==
    /\ Cardinality(StreamingIndices(chatHistory)) = 1
    /\ \E i \in 1..Len(chatHistory) :
          chatHistory[i].type = "assistant" /\ ~chatHistory[i].isStreaming
    /\ "tool_result" \in {trace[k] : k \in 1..Len(trace)}

(* C5 as claimed: once a fault has been caught, the last entry is the one   *)
(* assistant entry describing the failure, the turn has ended, and no entry *)
(* is marked isStreaming.                                                   *)
C5_FaultLeavesNoStreaming ==
    chunk.type = "fault" =>
        /\ pc = "finished"
        /\ chatHistory[Len(chatHistory)] = ErrorEntry
        /\ Cardinality({i \in 1..Len(chatHistory) : chatHistory[i] = ErrorEntry}) = 1
        /\ StreamingIndices(chatHistory) = {}

-----------------------------------------------------------------------------
(* Steps of the loop, recognised by the event they consume *)

Consumes(type) == trace' = Append(trace, type)

ResultStep == Consumes("tool_result") /\ chunk'.toolCall # None

HasToolCall(h, id) ==
    \E i \in 1..Len(h) : h[i].type = "tool_call" /\ h[i].toolCall = Some(id)

UnmatchedResultStep == ResultStep /\ ~HasToolCall(chatHistory, chunk'.toolCall[1])

ToolCallsStep == Consumes("tool_calls") /\ chunk'.toolCalls # None

LastIsStreaming(h) == h # <<>> /\ h[Len(h)].isStreaming

C7_ToolResultFlushesFirst ==
    [][ResultStep =>
          /\ streamingContentBuffer' = ""
          /\ LastIsStreaming(chatHistory) =>
                chatHistory'[Len(chatHistory)].content =
                    chatHistory[Len(chatHistory)].content \o streamingContentBuffer]_vars

ExpectedResultContent(r) ==
    CASE r.success /\ r.output # "" -> r.output
      [] r.success /\ r.output = "" -> "Success"
      [] ~r.success /\ r.error # "" -> r.error
      [] ~r.success /\ r.error = "" -> "Error occurred"

(* C8: a tool_result event replaces every tool_call entry with its id, in   *)
(* place, by a tool_result entry carrying the result and the content the    *)
(* result determines; all other entries keep position, type, content and    *)
(* tool data; the loop goes on, also after a failure result.                *)
C8_ResultReplacesInPlace ==
    [][ResultStep =>
          LET id == chunk'.toolCall[1]
              r  == chunk'.toolResult[1]
          IN  /\ pc' = "loop"
              /\ Len(chatHistory') = Len(chatHistory)
              /\ \A i \in 1..Len(chatHistory) :
                    IF chatHistory[i].type = "tool_call"
                       /\ chatHistory[i].toolCall = Some(id)
                    THEN chatHistory'[i] =
                             [chatHistory[i] EXCEPT !.type = "tool_result",
                                                    !.content = ExpectedResultContent(r),
                                                    !.toolResult = Some(r)]
                    ELSE chatHistory'[i] =
                             [chatHistory[i] EXCEPT !.isStreaming = FALSE]]_vars

C8_Witness ==
    /\ pc = "loop"
    /\ chunk.type = "tool_result"
    /\ \E i, j \in 1..Len(chatHistory) :
          /\ i < j
          /\ chatHistory[i].type = "tool_call"
          /\ chatHistory[i].content = "Executing..."
          /\ chatHistory[j].type = "tool_result"
          /\ chatHistory[j].content = "Error occurred"
          /\ chatHistory[j].toolResult = chunk.toolResult
          /\ chatHistory[j].toolCall = chunk.toolCall

(* C9: a tool_calls event leaves no timer and an empty buffer; the entry    *)
(* that was streaming gets the buffered text at its end, is marked          *)
(* non-streaming and carries the call list; every other entry is as before; *)
(* behind them comes one "Executing..." tool_call entry per call, in call   *)
(* order; no entry is streaming.                                            *)
C9_ToolCallsFlushStopAppend ==
    [][ToolCallsStep =>
          LET calls == chunk'.toolCalls[1]
              n     == Len(chatHistory)
          IN  /\ streamingUpdateTimer' = "null"
              /\ streamingContentBuffer' = ""
              /\ Len(chatHistory') = n + Len(calls)
              /\ \A i \in 1..n :
                    chatHistory'[i] =
                        IF chatHistory[i].isStreaming
                        THEN [chatHistory[i] EXCEPT
                                 !.content = @ \o streamingContentBuffer,
                                 !.isStreaming = FALSE,
                                 !.toolCalls = Some(calls)]
                        ELSE chatHistory[i]
              /\ \A k \in 1..Len(calls) :
                    chatHistory'[n + k] =
                        [type |-> "tool_call", content |-> "Executing...",
                         isStreaming |-> FALSE, toolCall |-> Some(calls[k]),
                         toolCalls |-> None, toolResult |-> None]
              /\ StreamingIndices(chatHistory') = {}]_vars

C9_Witness ==
    /\ trace = <<"content", "content", "tool_calls">>
    /\ chunk.toolCalls = Some(<<"t2", "t1">>)
    /\ Len(chatHistory) = 4
    /\ chatHistory[2].content = "12"
    /\ chatHistory[2].toolCalls = chunk.toolCalls
    /\ chatHistory[3].toolCall = Some("t2")
    /\ chatHistory[4].toolCall = Some("t1")

(* C10: once a done event has been processed (and until the next event),    *)
(* the buffer is empty, no timer is pending, no entry is streaming and the  *)
(* isStreaming indicator is false.                                          *)
C10_DoneLeavesNothingPending ==
    chunk.type = "done" =>
        /\ streamingContentBuffer = ""
        /\ streamingUpdateTimer = "null"
        /\ StreamingIndices(chatHistory) = {}
        /\ ~isStreaming

C10_Witness ==
    /\ chunk.type = "done"
    /\ trace = <<"content", "content", "done">>
    /\ Len(chatHistory) = 2
    /\ chatHistory[2].content = "12"

-----------------------------------------------------------------------------
(* The coalescer's flush *)

(* C11: in every reachable state, a flush followed at once by a second      *)
(* flush gives the history and the buffer the first flush gave.             *)
C11_FlushIdempotent ==
    LET h1 == FlushedHistory(chatHistory, streamingContentBuffer)
        b1 == FlushedBuffer(streamingContentBuffer)
    IN  /\ FlushedHistory(h1, b1) = h1
        /\ FlushedBuffer(b1) = b1

C11_Witness ==
    /\ streamingContentBuffer # ""
    /\ LastIsStreaming(chatHistory)
    /\ FlushedHistory(chatHistory, streamingContentBuffer) # chatHistory

TimerStep ==
    /\ streamingUpdateTimer = "armed"
    /\ streamingUpdateTimer' = "null"
    /\ trace' = trace
    /\ pc' = pc
    /\ effectStreaming' = effectStreaming

CleanupStep == effectStreaming' # effectStreaming /\ streamingUpdateTimer # "null"

FlushStep == TimerStep \/ Consumes("done") \/ ToolCallsStep \/ CleanupStep

-----------------------------------------------------------------------------
(* Eviction *)

StillInHistory(entry, buffer, h) ==
    \E j \in 1..Len(h) :
        /\ h[j].type = entry.type
        /\ h[j].content \in {entry.content, entry.content \o buffer}

(* C13: every update keeps each entry that is streaming in the history      *)
(* (with its content, or its content grown by the buffer), and a content    *)
(* event that starts a streaming entry leaves that entry last in the        *)
(* history, also when the update trims the history to the cap.              *)
C13_StreamingEntryNeverEvicted ==
    [][/\ \A i \in StreamingIndices(chatHistory) :
             StillInHistory(chatHistory[i], streamingContentBuffer, chatHistory')
       /\ (streamingEntry' /\ ~streamingEntry) =>
             chatHistory'[Len(chatHistory')] = NewStreamingEntry(chunk'.content)]_vars

C13_Witness ==
    /\ Len(chatHistory) = HistoryCap
    /\ chatHistory[1] # UserEntry
    /\ \E i \in StreamingIndices(chatHistory) : i < Len(chatHistory)
    /\ chatHistory[Len(chatHistory)] = ErrorEntry

-----------------------------------------------------------------------------
(* The display window (ChatHistory component) and the confirmation dialog.  *)

MaxViewAppends == 23
MaxToolEntries == 2
DisplayCap == 20

Pending(entry) == entry.type = "tool_call" /\ entry.content = "Executing..."

FilteredEntries(entries, isConfirmationActive) ==
    IF isConfirmationActive
    THEN SelectSeq(entries, LAMBDA entry : ~Pending(entry))
    ELSE entries

LastOf(entries, n) ==
    IF Len(entries) > n
    THEN SubSeq(entries, Len(entries) - n + 1, Len(entries))
    ELSE entries

DisplayEntriesSliceFirst(entries, isConfirmationActive) ==
    FilteredEntries(LastOf(entries, DisplayCap), isConfirmationActive)

DisplayEntries(entries, isConfirmationActive) ==
    LastOf(FilteredEntries(entries, isConfirmationActive), DisplayCap)

IsConfirmationActive == confirmationOptions # None

InitView ==
    /\ chatHistory = <<>>
    /\ isProcessing = FALSE
    /\ isStreaming = FALSE
    /\ tokenCount = 0
    /\ streamingContentBuffer = ""
    /\ streamingUpdateTimer = "null"
    /\ streamingEntry = FALSE
    /\ pc = "start"
    /\ chunk = NoChunk
    /\ trace = <<>>
    /\ received = ""
    /\ effectStreaming = FALSE
    /\ appended = 0
    /\ OthersIdle

ToolEntries(h) ==
    Cardinality({i \in 1..Len(h) : h[i].type \in {"tool_call", "tool_result"}})

ViewAppendText ==
    /\ appended < MaxViewAppends
    /\ chatHistory' = AddToHistory(chatHistory,
                                   <<Entry("assistant", ToString(appended + 1), FALSE)>>)
    /\ appended' = appended + 1
    /\ UNCHANGED <<isProcessing, isStreaming, tokenCount, streamingContentBuffer,
                   streamingUpdateTimer, streamingEntry, pc, chunk, trace, received,
                   effectStreaming>>
    /\ UNCHANGED <<otherVars, timerVars>>

ViewAppendToolCall ==
    /\ appended < MaxViewAppends
    /\ ToolEntries(chatHistory) < MaxToolEntries
    /\ chatHistory' = AddToHistory(chatHistory, <<ToolCallEntry("t1")>>)
    /\ appended' = appended + 1
    /\ UNCHANGED <<isProcessing, isStreaming, tokenCount, streamingContentBuffer,
                   streamingUpdateTimer, streamingEntry, pc, chunk, trace, received,
                   effectStreaming>>
    /\ UNCHANGED <<otherVars, timerVars>>

ViewToolResult ==
    /\ ~IsConfirmationActive
    /\ \E i \in 1..Len(chatHistory), r \in {x \in ToolResults : x.output # ""} :
        /\ Pending(chatHistory[i])
        /\ chatHistory' = ToolResultHistory(chatHistory, chatHistory[i].toolCall[1], r)
    /\ UNCHANGED <<isProcessing, isStreaming, tokenCount, streamingContentBuffer,
                   streamingUpdateTimer, streamingEntry, pc, chunk, trace, received,
                   effectStreaming, appended>>
    /\ UNCHANGED <<otherVars, timerVars>>

HandleConfirmationRequest ==
    /\ ~IsConfirmationActive
    /\ \E i \in 1..Len(chatHistory) : Pending(chatHistory[i])
    /\ confirmationOptions' = Some("options")
    /\ UNCHANGED <<loopVars, rateVars, bashVars, timeVars, callVars, timerVars>>

HandleConfirmation ==
    /\ IsConfirmationActive
    /\ confirmationOptions' = None
    /\ UNCHANGED <<loopVars, rateVars, bashVars, timeVars, callVars, timerVars>>

HandleRejection ==
    /\ IsConfirmationActive
    /\ confirmationOptions' = None
    /\ isProcessing' = FALSE
    /\ isStreaming' = FALSE
    /\ tokenCount' = 0
    /\ UNCHANGED <<chatHistory, streamingContentBuffer, streamingUpdateTimer,
                   streamingEntry, pc, chunk, trace, received, effectStreaming,
                   appended>>
    /\ processingTime' = 0
    /\ processingStartTime' = 0
    /\ UNCHANGED <<rateVars, bashVars, callVars, timerVars>>

NextView ==
    \/ ViewAppendText
    \/ ViewAppendToolCall
    \/ ViewToolResult
    \/ HandleConfirmationRequest
    \/ HandleConfirmation
    \/ HandleRejection

SpecView == InitView /\ [][NextView]_vars

Min(a, b) == IF a < b THEN a ELSE b

IsTail(window, entries) ==
    /\ Len(window) = Min(DisplayCap, Len(entries))
    /\ \A k \in 1..Len(window) :
           window[k] = entries[Len(entries) - Len(window) + k]

\* C14 (as stated): in every state, a confirmation being active or not, the
\* display window is the most recent min(20, history length) entries of the
\* history in history order, and its length exceeds neither 20 nor the
\* retention cap.
C14_WindowIsTailOfHistory ==
    LET window == DisplayEntries(chatHistory, IsConfirmationActive) IN
    /\ IsTail(window, chatHistory)
    /\ Len(window) <= DisplayCap
    /\ Len(window) <= HistoryCap

\* C14 (amended): the display window is the most recent min(20, n) of the n
\* entries that are visible, in history order, where every entry is visible
\* unless a confirmation is active, and while one is active the pending tool
\* calls (type tool_call, content "Executing...") are not; its length exceeds
\* neither 20 nor the retention cap, and with no confirmation active it is
\* the most recent min(20, history length) entries of the history.
C14_WindowIsTailOfVisible ==
    LET window  == DisplayEntries(chatHistory, IsConfirmationActive)
        visible == IF IsConfirmationActive
                   THEN SelectSeq(chatHistory, LAMBDA entry : ~Pending(entry))
                   ELSE chatHistory
    IN  /\ IsTail(window, visible)
        /\ Len(window) <= DisplayCap
        /\ Len(window) <= HistoryCap
        /\ DisplayCap <= HistoryCap
        /\ ~IsConfirmationActive => IsTail(window, chatHistory)

C14_Witness ==
    /\ IsConfirmationActive
    /\ Len(chatHistory) > DisplayCap + 1
    /\ Pending(chatHistory[Len(chatHistory) - 1])
    /\ Len(DisplayEntries(chatHistory, IsConfirmationActive)) = DisplayCap
    /\ DisplayEntries(chatHistory, IsConfirmationActive)[1]
           = chatHistory[Len(chatHistory) - DisplayCap]

-----------------------------------------------------------------------------
(* command-validator: strings, the regular expressions it uses, and the     *)
(* checks.  A command is a string; a regular expression is a sequence of    *)
(* items, each a literal, a repetition of a character class, a choice of    *)
(* literals or a negative lookahead.                                        *)

Whitespace == {" ", "\t", "\n"}

At(s, i) == SubSeq(s, i, i)

LiteralAt(s, pos, literal) ==
    /\ pos + Len(literal) - 1 <= Len(s)
    /\ SubSeq(s, pos, pos + Len(literal) - 1) = literal

Includes(s, literal) == \E pos \in 1..(Len(s) + 1) : LiteralAt(s, pos, literal)

StartsWith(s, literal) == LiteralAt(s, 1, literal)

Trim(s) ==
    LET kept == {i \in 1..Len(s) : At(s, i) \notin Whitespace} IN
    IF kept = {} THEN ""
    ELSE SubSeq(s, CHOOSE i \in kept : \A j \in kept : i <= j,
                   CHOOSE i \in kept : \A j \in kept : i >= j)

(* command.trim().split(/\s+/)[0] *)
FirstWord(command) ==
    LET trimmed == Trim(command)
        spaces  == {i \in 1..Len(trimmed) : At(trimmed, i) \in Whitespace}
    IN  IF spaces = {} THEN trimmed
        ELSE SubSeq(trimmed, 1, (CHOOSE i \in spaces : \A j \in spaces : i <= j) - 1)

Lit(literal) == [kind |-> "literal", literals |-> <<literal>>, min |-> 0]
OneOf(literals) == [kind |-> "literal", literals |-> literals, min |-> 0]
NotAhead(literals) == [kind |-> "notahead", literals |-> literals, min |-> 0]
Spaces(min) == [kind |-> "spaces", literals |-> <<>>, min |-> min]
AnyChars == [kind |-> "any", literals |-> <<>>, min |-> 0]
Many(char) == [kind |-> "many", literals |-> <<char>>, min |-> 1]

InClass(item, char) ==
    CASE item.kind = "spaces" -> char \in Whitespace
      [] item.kind = "any"    -> char # "\n"
      [] item.kind = "many"   -> char = item.literals[1]

(* the items from the k-th on match s from position pos *)
RECURSIVE MatchFrom(_, _, _, _)
MatchFrom(regex, k, s, pos) ==
    IF k > Len(regex) THEN TRUE
    ELSE LET item == regex[k] IN
         CASE item.kind = "literal" ->
                \E a \in 1..Len(item.literals) :
                    /\ LiteralAt(s, pos, item.literals[a])
                    /\ MatchFrom(regex, k + 1, s, pos + Len(item.literals[a]))
           [] item.kind = "notahead" ->
                /\ \A a \in 1..Len(item.literals) : ~LiteralAt(s, pos, item.literals[a])
                /\ MatchFrom(regex, k + 1, s, pos)
           [] OTHER ->
                \E n \in item.min..(Len(s) - pos + 1) :
                    /\ \A i \in pos..(pos + n - 1) : InClass(item, At(s, i))
                    /\ MatchFrom(regex, k + 1, s, pos + n)

(* RegExp.prototype.test without flags: a match starting anywhere *)
Test(regex, s) == \E pos \in 1..(Len(s) + 1) : MatchFrom(regex, 1, s, pos)

Rule(severity, reason) == [severity |-> severity, reason |-> reason]

DANGEROUS_COMMANDS == <<
    [literal |-> "rm -rf /",      rule |-> Rule("error", "Attempting to delete root directory")],
    [literal |-> "rm -rf /*",     rule |-> Rule("error", "Attempting to delete all files in root")],
    [literal |-> "rm -rf ~",      rule |-> Rule("error", "Attempting to delete home directory")],
    [literal |-> "rm -rf $HOME",  rule |-> Rule("error", "Attempting to delete home directory")],
    [literal |-> "mkfs",          rule |-> Rule("error", "Attempting to format filesystem")],
    [literal |-> "dd if=",        rule |-> Rule("error", "Direct disk write operation")],
    [literal |-> ":(){ :|:& };:", rule |-> Rule("error", "Fork bomb detected")] >>

DANGEROUS_PATTERNS == <<
    [pattern |-> <<Lit("rm"), Spaces(1), Lit("-rf"), Spaces(1), Lit("/"),
                   NotAhead(<<"tmp", "var/tmp">>)>>,
     rule |-> Rule("error", "Attempting to recursively delete from root directory")],
    [pattern |-> <<Lit("rm"), Spaces(1), Lit("-rf"), AnyChars, Lit("*")>>,
     rule |-> Rule("warning", "Recursive deletion with wildcards")],
    [pattern |-> <<Many(">"), Spaces(0), Lit("/dev/"), OneOf(<<"sda", "hda", "nvme">>)>>,
     rule |-> Rule("error", "Attempting to write directly to disk device")],
    [pattern |-> <<Lit("chmod"), Spaces(1), Lit("777"), Spaces(1), Lit("/")>>,
     rule |-> Rule("warning", "Setting overly permissive permissions on root")],
    [pattern |-> <<Lit("curl"), AnyChars, Lit("|"), Spaces(0), Lit("bash")>>,
     rule |-> Rule("warning", "Piping remote script directly to bash")],
    [pattern |-> <<Lit("wget"), AnyChars, Lit("|"), Spaces(0), Lit("bash")>>,
     rule |-> Rule("warning", "Piping remote script directly to bash")],
    [pattern |-> <<Lit("eval"), Spaces(1), Lit("$(")>>,
     rule |-> Rule("warning", "Using eval with command substitution")],
    [pattern |-> <<Lit(":(){"), AnyChars, Lit(":|:&"), Spaces(0), Lit("};:")>>,
     rule |-> Rule("error", "Fork bomb detected")] >>

HIGH_RISK_COMMANDS ==
    {"rm", "rmdir", "unlink", "dd", "mkfs", "fdisk", "chmod", "chown", "kill",
     "killall", "shutdown", "reboot", "halt", "init"}

Invalid(rule) ==
    [isValid |-> FALSE, reason |-> Some(rule.reason), severity |-> Some(rule.severity)]

Valid == [isValid |-> TRUE, reason |-> None, severity |-> None]

(* mutant: the regex rules are tried before the literals *)
ValidateCommandPatternsFirst(command) ==
    LET trimmed  == Trim(command)
        literals == {a \in 1..Len(DANGEROUS_COMMANDS) :
                        Includes(trimmed, DANGEROUS_COMMANDS[a].literal)}
        patterns == {a \in 1..Len(DANGEROUS_PATTERNS) :
                        Test(DANGEROUS_PATTERNS[a].pattern, trimmed)}
    IN  IF trimmed = "" THEN Invalid(Rule("error", "Empty command"))
        ELSE IF patterns # {}
        THEN Invalid(DANGEROUS_PATTERNS[CHOOSE a \in patterns :
                                            \A b \in patterns : a <= b].rule)
        ELSE IF literals # {}
        THEN Invalid(DANGEROUS_COMMANDS[CHOOSE a \in literals :
                                            \A b \in literals : a <= b].rule)
        ELSE Valid

ValidateCommand(command) ==
    LET trimmed  == Trim(command)
        literals == {a \in 1..Len(DANGEROUS_COMMANDS) :
                        Includes(trimmed, DANGEROUS_COMMANDS[a].literal)}
        patterns == {a \in 1..Len(DANGEROUS_PATTERNS) :
                        Test(DANGEROUS_PATTERNS[a].pattern, trimmed)}
    IN  IF trimmed = "" THEN Invalid(Rule("error", "Empty command"))
        ELSE IF literals # {}
        THEN Invalid(DANGEROUS_COMMANDS[CHOOSE a \in literals :
                                            \A b \in literals : a <= b].rule)
        ELSE IF patterns # {}
        THEN Invalid(DANGEROUS_PATTERNS[CHOOSE a \in patterns :
                                            \A b \in patterns : a <= b].rule)
        ELSE Valid

IsHighRiskCommand(command) == FirstWord(command) \in HIGH_RISK_COMMANDS

(* sanitizeCommandForLogging: three String.replace calls with global       *)
(* regexes, each modelled by a left-to-right scan that replaces the         *)
(* leftmost match and goes on behind it.                                     *)

Quotes == {"\"", "'"}

LowerCaseLetters == "abcdefghijklmnopqrstuvwxyz"

UpperCaseLetters == "ABCDEFGHIJKLMNOPQRSTUVWXYZ"

CharAt(s, i) == IF i >= 1 /\ i <= Len(s) THEN At(s, i) ELSE ""

Lower(char) ==
    LET at == {i \in 1..26 : At(UpperCaseLetters, i) = char} IN
    IF at = {} THEN char ELSE At(LowerCaseLetters, CHOOSE i \in at : TRUE)

IsNameChar(char) ==
    \/ char = "_"
    \/ \E i \in 1..26 : At(LowerCaseLetters, i) = Lower(char)

IsValueChar(char) == char # "" /\ char \notin Quotes /\ char \notin Whitespace

(* the literal, in lower case, stands at pos whatever the case (flag i) *)
LiteralAtIgnoreCase(s, pos, literal) ==
    /\ pos + Len(literal) - 1 <= Len(s)
    /\ \A i \in 1..Len(literal) : Lower(At(s, pos + i - 1)) = At(literal, i)

(* the first position from pos on whose character fails the test *)
RunEnd(s, pos, IsIn(_)) ==
    LET stops == {i \in pos..Len(s) : ~IsIn(At(s, i))} IN
    IF stops # {} THEN CHOOSE i \in stops : \A j \in stops : i <= j
    ELSE IF pos > Len(s) THEN pos ELSE Len(s) + 1

(* ["']?[^"'\s]+["']? from pos: the position behind the match, 0 if none *)
ValueEnd(s, pos) ==
    LET start == IF CharAt(s, pos) \in Quotes THEN pos + 1 ELSE pos
        end   == RunEnd(s, start, IsValueChar)
    IN  IF end = start THEN 0
        ELSE IF CharAt(s, end) \in Quotes THEN end + 1 ELSE end

(* ([a-zA-Z_]+KEY|TOKEN|PASSWORD|SECRET)= from pos: the position of "=", 0 if none *)
AssignmentNameEnd(s, pos) ==
    LET end == RunEnd(s, pos, IsNameChar) IN
    IF /\ end - pos >= 4
       /\ LiteralAtIgnoreCase(s, end - 3, "key")
       /\ CharAt(s, end) = "="
    THEN end
    ELSE LET words == {w \in {"token", "password", "secret"} :
                          /\ LiteralAtIgnoreCase(s, pos, w)
                          /\ CharAt(s, pos + Len(w)) = "="}
         IN  IF words = {} THEN 0 ELSE pos + Len(CHOOSE w \in words : TRUE)

RECURSIVE MaskAssignments(_, _)
MaskAssignments(s, pos) ==
    IF pos > Len(s) THEN ""
    ELSE LET name == AssignmentNameEnd(s, pos)
             end  == IF name = 0 THEN 0 ELSE ValueEnd(s, name + 1)
         IN  IF end = 0 THEN At(s, pos) \o MaskAssignments(s, pos + 1)
             ELSE SubSeq(s, pos, name - 1) \o "=***" \o MaskAssignments(s, end)

(* (--?)(key|token|password|secret) from pos: the position behind the word, 0 if none *)
FlagNameEnd(s, pos) ==
    LET start == IF LiteralAt(s, pos, "--") THEN pos + 2 ELSE pos + 1
        words == {w \in {"key", "token", "password", "secret"} :
                     LiteralAtIgnoreCase(s, start, w)}
    IN  IF CharAt(s, pos) # "-" \/ words = {} THEN 0
        ELSE start + Len(CHOOSE w \in words : TRUE)

IsSeparator(char) == char = "=" \/ char \in Whitespace

(* [=\s]+["']?[^"'\s]+["']? from pos: the separators are taken greedily and *)
(* given back one by one until the value matches                            *)
FlagValueEnd(s, pos) ==
    LET run  == RunEnd(s, pos, IsSeparator)
        lens == {n \in 1..(run - pos) : ValueEnd(s, pos + n) # 0}
    IN  IF lens = {} THEN 0
        ELSE ValueEnd(s, pos + (CHOOSE n \in lens : \A m \in lens : m <= n))

RECURSIVE MaskFlags(_, _)
MaskFlags(s, pos) ==
    IF pos > Len(s) THEN ""
    ELSE LET name == FlagNameEnd(s, pos)
             end  == IF name = 0 THEN 0 ELSE FlagValueEnd(s, name)
         IN  IF end = 0 THEN At(s, pos) \o MaskFlags(s, pos + 1)
             ELSE SubSeq(s, pos, name - 1) \o "=***" \o MaskFlags(s, end)

IsNotColon(char) == char # ":"

IsNotAt(char) == char # "@"

(* (https?:\/\/)([^:]+):([^@]+)@ from pos: <<position of the ":" before the *)
(* password, position of the "@">>, <<0, 0>> if none                        *)
UrlAuthAt(s, pos) ==
    LET user  == IF LiteralAt(s, pos, "https://") THEN pos + 8
                 ELSE IF LiteralAt(s, pos, "http://") THEN pos + 7 ELSE 0
        colon == RunEnd(s, user, IsNotColon)
        at    == RunEnd(s, colon + 1, IsNotAt)
    IN  IF user = 0 \/ colon = user \/ colon > Len(s) \/ at = colon + 1 \/ at > Len(s)
        THEN <<0, 0>>
        ELSE <<colon, at>>

RECURSIVE MaskUrlAuth(_, _)
MaskUrlAuth(s, pos) ==
    IF pos > Len(s) THEN ""
    ELSE LET found == UrlAuthAt(s, pos) IN
         IF found[1] = 0 THEN At(s, pos) \o MaskUrlAuth(s, pos + 1)
         ELSE SubSeq(s, pos, found[1] - 1) \o ":***@" \o MaskUrlAuth(s, found[2] + 1)

SanitizeCommandForLogging(command) ==
    MaskUrlAuth(MaskFlags(MaskAssignments(command, 1), 1), 1)

(* the two emoji of the source are written as the words in brackets *)
GetCommandWarningMessage(command) ==
    LET validation == ValidateCommand(command) IN
    IF ~validation.isValid
    THEN Some((IF validation.severity = Some("error") THEN "[no entry]" ELSE "[warning]")
              \o " " \o validation.reason[1])
    ELSE IF IsHighRiskCommand(command)
    THEN Some("[warning] This command modifies system state and requires confirmation")
    ELSE None

-----------------------------------------------------------------------------
(* CommandRateLimiter: a limiter of any size and window, any caller, and a  *)
(* clock that never runs backwards.  Times are in milliseconds.             *)

MaxNow == 3000
MaxRateCalls == 5
ClockSteps == {500, 1000}
MaxCounts == {1, 2, 3}
Windows == {1000, 2500}

LoopIdle ==
    /\ chatHistory = <<>>
    /\ isProcessing = FALSE
    /\ isStreaming = FALSE
    /\ tokenCount = 0
    /\ streamingContentBuffer = ""
    /\ streamingUpdateTimer = "null"
    /\ streamingEntry = FALSE
    /\ pc = "start"
    /\ chunk = NoChunk
    /\ trace = <<>>
    /\ received = ""
    /\ effectStreaming = FALSE
    /\ appended = 0

(* mutant: an entry exactly one window old still counts *)
UnexpiredInclusive(history, t, w) ==
    SelectSeq(history, LAMBDA entry : t - entry.timestamp <= w)

Unexpired(history, t, w) ==
    SelectSeq(history, LAMBDA entry : t - entry.timestamp < w)

(* mutant: the window is full only when it holds more than the maximum *)
WindowFullAbove(history, max) == Len(history) > max

WindowFull(history, max) == Len(history) >= max

(* mutant: Math.floor in place of Math.ceil *)
RetryAfterFloor(oldestCommand, w, t) ==
    (oldestCommand.timestamp + w - t) \div 1000

(* mutant: a fixed second *)
RetryAfterOneSecond(oldestCommand, w, t) == 1

RetryAfter(oldestCommand, w, t) ==
    (oldestCommand.timestamp + w - t + 999) \div 1000

RateLimitReason(max) ==
    "Rate limit exceeded: " \o ToString(max) \o " commands per minute"

Allowed == [allowed |-> TRUE, reason |-> None, retryAfter |-> None]

CanExecuteResult(history, t, max, w) ==
    LET recent == Unexpired(history, t, w) IN
    IF WindowFull(recent, max)
    THEN [allowed |-> FALSE, reason |-> Some(RateLimitReason(max)),
          retryAfter |-> Some(RetryAfter(recent[1], w, t))]
    ELSE Allowed

(* mutant: the attempt is recorded whether or not it is admitted *)
CanExecuteHistoryOfEveryAttempt(history, command, t, max, w) ==
    Append(Unexpired(history, t, w), [timestamp |-> t, command |-> command])

CanExecuteHistory(history, command, t, max, w) ==
    LET recent == Unexpired(history, t, w) IN
    IF WindowFull(recent, max)
    THEN recent
    ELSE Append(recent, [timestamp |-> t, command |-> command])

(* mutant: reset keeps the most recent entry *)
ResetHistoryKeepsLast(history) ==
    IF history = <<>> THEN <<>> ELSE <<history[Len(history)]>>

ResetHistory(history) == <<>>

(* utilizationPercent is the quotient numerator / denominator *)
GetStatsResult(history, t, max, w) ==
    LET recent == Unexpired(history, t, w) IN
    [commandsInWindow |-> Len(recent), maxCommands |-> max,
     utilizationPercent |-> [numerator |-> Len(recent) * 100, denominator |-> max]]

InitRate ==
    /\ LoopIdle
    /\ confirmationOptions = None
    /\ commandHistory = <<>>
    /\ maxCommandsPerMinute \in MaxCounts
    /\ windowMs \in Windows
    /\ now = 0
    /\ rateLog = <<>>
    /\ resetFrom = None
    /\ stats = None
    /\ BashIdle
    /\ TimeIdle
    /\ CallIdle
    /\ TimerIdle

Tick ==
    /\ \E d \in ClockSteps :
        /\ now + d <= MaxNow
        /\ now' = now + d
    /\ UNCHANGED <<commandHistory, maxCommandsPerMinute, windowMs, rateLog, resetFrom, stats>>
    /\ UNCHANGED <<loopVars, confirmationOptions, bashVars, timeVars, callVars, timerVars>>

CanExecute ==
    /\ Len(rateLog) < MaxRateCalls
    /\ \E command \in {"ls"} :
        /\ commandHistory' = CanExecuteHistory(commandHistory, command, now,
                                               maxCommandsPerMinute, windowMs)
        /\ rateLog' = Append(rateLog,
                           [at |-> now,
                            result |-> CanExecuteResult(commandHistory, now,
                                                        maxCommandsPerMinute, windowMs)])
    /\ UNCHANGED <<maxCommandsPerMinute, windowMs, now, resetFrom, stats>>
    /\ UNCHANGED <<loopVars, confirmationOptions, bashVars, timeVars, callVars, timerVars>>

Reset ==
    /\ commandHistory' = ResetHistory(commandHistory)
    /\ resetFrom' = Some([at |-> now,
                          recorded |-> Len(Unexpired(commandHistory, now, windowMs))])
    /\ rateLog' = <<>>
    /\ stats' = None
    /\ UNCHANGED <<maxCommandsPerMinute, windowMs, now>>
    /\ UNCHANGED <<loopVars, confirmationOptions, bashVars, timeVars, callVars, timerVars>>

GetStats ==
    /\ stats' = Some([callsBefore |-> Len(rateLog),
                       result |-> GetStatsResult(commandHistory, now,
                                                 maxCommandsPerMinute, windowMs)])
    /\ UNCHANGED <<commandHistory, maxCommandsPerMinute, windowMs, now, rateLog, resetFrom>>
    /\ UNCHANGED <<loopVars, confirmationOptions, bashVars, timeVars, callVars, timerVars>>

NextRate == Tick \/ CanExecute \/ Reset \/ GetStats

SpecRate == InitRate /\ [][NextRate]_vars

AdmittedTimes == SelectSeq(rateLog, LAMBDA call : call.result.allowed)

Rejected(call) ==
    /\ ~call.result.allowed
    /\ call.result.reason # None
    /\ call.result.retryAfter # None

(* C15: with maxCount >= 1 and a clock that never runs backwards, after any *)
(* sequence of canExecute calls at most maxCount admitted calls lie in any  *)
(* span shorter than the window; the first maxCount calls inside one window *)
(* are admitted and the next one inside it is rejected with the reason      *)
(* "Rate limit exceeded: ..." and retryAfter > 0.                           *)
C15_AtMostMaxPerWindow ==
    LET admitted == AdmittedTimes IN
    /\ \A i, j \in 1..Len(admitted) :
          (i <= j /\ admitted[j].at - admitted[i].at < windowMs)
              => j - i + 1 <= maxCommandsPerMinute
    /\ \A k \in 1..Len(rateLog) :
          rateLog[k].at - rateLog[1].at < windowMs =>
              /\ k <= maxCommandsPerMinute => rateLog[k].result.allowed
              /\ k = maxCommandsPerMinute + 1 =>
                    /\ Rejected(rateLog[k])
                    /\ rateLog[k].result.reason[1] =
                           "Rate limit exceeded" \o ": "
                               \o ToString(maxCommandsPerMinute) \o " commands per minute"
                    /\ rateLog[k].result.retryAfter[1] > 0

C15_Witness ==
    /\ maxCommandsPerMinute = 3
    /\ windowMs = 1000
    /\ Len(rateLog) = 5
    /\ \A k \in 1..3 : rateLog[k].result.allowed
    /\ Rejected(rateLog[4])
    /\ rateLog[4].at - rateLog[1].at = 500
    /\ rateLog[5].result.allowed

CanExecuteStep == Len(rateLog') = Len(rateLog) + 1

(* C16: a canExecute call made when at least a window has elapsed since     *)
(* every admission recorded before is admitted, and leaves that call as the *)
(* only recorded entry, also when the limiter was full.                     *)
C16_ExpiredEntriesAdmit ==
    [][(/\ CanExecuteStep
        /\ \A k \in 1..Len(rateLog) :
              rateLog[k].result.allowed => now - rateLog[k].at >= windowMs)
          => /\ rateLog'[Len(rateLog')].result.allowed
             /\ Len(commandHistory') = 1
             /\ commandHistory'[1].timestamp = now]_vars

C16_Witness ==
    /\ maxCommandsPerMinute = 2
    /\ Len(rateLog) = 4
    /\ rateLog[1].result.allowed
    /\ rateLog[2].result.allowed
    /\ Rejected(rateLog[3])
    /\ rateLog[4].result.allowed
    /\ rateLog[4].at - rateLog[2].at = windowMs
    /\ Len(commandHistory) = 1

(* C17: after reset(), whatever was recorded before, the next maxCount      *)
(* canExecute calls are all admitted, and a getStats that follows the reset *)
(* at once reports 0 commands in the window.                                *)
C17_ResetRestoresCapacity ==
    resetFrom # None =>
        /\ \A k \in 1..Len(rateLog) :
              k <= maxCommandsPerMinute => rateLog[k].result.allowed
        /\ (stats # None /\ stats[1].callsBefore = 0) =>
              stats[1].result.commandsInWindow = 0

C17_Witness ==
    /\ resetFrom # None
    /\ resetFrom[1].recorded = maxCommandsPerMinute
    /\ maxCommandsPerMinute = 3
    /\ Len(rateLog) = 3
    /\ \A k \in 1..3 : rateLog[k].result.allowed /\ rateLog[k].at = resetFrom[1].at
    /\ stats # None
    /\ stats[1].callsBefore = 0

(* the oldest admission of the log that has not expired at time t *)
OldestUnexpired(t) ==
    LET live == SelectSeq(rateLog, LAMBDA call :
                              call.result.allowed /\ t - call.at < windowMs)
    IN  live[1].at

(* C18 as claimed: the retryAfter of a rejection is the time until the      *)
(* oldest recorded entry expires, oldest + window - now, in the unit of the *)
(* window (milliseconds).                                                   *)
C18_RetryAfterIsRemainingTime ==
    \A k \in 1..Len(rateLog) :
        ~rateLog[k].result.allowed =>
            rateLog[k].result.retryAfter[1] =
                OldestUnexpired(rateLog[k].at) + windowMs - rateLog[k].at

(* C18 amended: the retryAfter of a rejection is the time until the oldest  *)
(* recorded entry expires, oldest + window - now milliseconds, in whole     *)
(* seconds rounded up: the least r with 1000 * r >= oldest + window - now.  *)
C18_RetryAfterIsSecondsRoundedUp ==
    \A k \in 1..Len(rateLog) :
        ~rateLog[k].result.allowed =>
            LET remaining == OldestUnexpired(rateLog[k].at) + windowMs - rateLog[k].at
                r         == rateLog[k].result.retryAfter[1]
            IN  /\ remaining > 0
                /\ 1000 * r >= remaining
                /\ 1000 * (r - 1) < remaining

C18_Witness ==
    /\ windowMs = 2500
    /\ \E k \in 1..Len(rateLog) :
          /\ Rejected(rateLog[k])
          /\ OldestUnexpired(rateLog[k].at) + windowMs - rateLog[k].at = 1500
          /\ rateLog[k].result.retryAfter[1] = 2

-----------------------------------------------------------------------------
(* BashTool.execute: validation, rate limit, confirmation, then the command. *)
(* The call is synchronous up to its first await (the confirmation or the    *)
(* child process); the operator's decision and the end of the child process  *)
(* resume it.                                                                *)

(* calls of execute that get past validation *)
MaxBashCalls == 3

BashCommands == {"", "ls", "cd /tmp", "rm x", " rm x", "rm -rf /", "chmod 777 /x"}

Feedbacks == {None, Some(""), Some("not now")}

ExecOutcomes ==
    { [failed |-> FALSE, stdout |-> o, stderr |-> e, message |-> ""] :
          o \in {"", "out"}, e \in {"", "warn"} }
    \cup { [failed |-> TRUE, stdout |-> "", stderr |-> "", message |-> "exit code 1"] }

Success(output) == [success |-> TRUE, output |-> Some(output), error |-> None]

Failure(error) == [success |-> FALSE, output |-> None, error |-> Some(error)]

Event(event, ok) == [event |-> event, ok |-> ok]

(* mutant: the feedback is dropped *)
RejectedResultWithoutFeedback(feedback) ==
    [success |-> FALSE, output |-> None,
     error |-> Some("Command execution cancelled by user")]

(* mutant: validation never blocks *)
IsBlockedNever(validation) == FALSE

(* mutant: only a rule of severity error blocks *)
IsBlockedOnErrorOnly(validation) ==
    ~validation.isValid /\ validation.severity = Some("error")

IsBlocked(validation) == ~validation.isValid

(* what the validator says about each command the tool is given *)
CommandChecks ==
    [command \in BashCommands |->
        [validation |-> ValidateCommand(command),
         warningMsg |-> GetCommandWarningMessage(command),
         highRisk   |-> IsHighRiskCommand(command)]]

BlockedResult(warningMsg, validation) ==
    Failure("Command blocked for safety: "
            \o (IF warningMsg # None /\ warningMsg[1] # ""
                THEN warningMsg[1] ELSE validation.reason[1]))

RateLimitedResult(rateLimitCheck) ==
    Failure(rateLimitCheck.reason[1] \o ". Retry after "
            \o ToString(rateLimitCheck.retryAfter[1]) \o "s")

(* mutant: a session flag is enough *)
NeedsConfirmationUnlessFlag(highRisk, flags) ==
    ~flags.bashCommands /\ ~flags.allOperations

NeedsConfirmation(highRisk, flags) ==
    highRisk \/ (~flags.bashCommands /\ ~flags.allOperations)

ConfirmationRequest(command, directory, warningMsg) ==
    [operation |-> "Run bash command", filename |-> command, showVSCodeOpen |-> FALSE,
     content |-> "Command: " \o command \o "\nWorking directory: " \o directory
                 \o (IF warningMsg # None /\ warningMsg[1] # ""
                     THEN "\n\n" \o warningMsg[1] ELSE "")]

(* ConfirmationService.requestConfirmation: the request reaches the dialog   *)
(* and the call waits for the decision.                                      *)
RequestConfirmation(options) ==
    /\ confirmationOptions' = Some(options)
    /\ bashPc' = "confirming"
    /\ bashResult' = None

Decision(confirmed, dontAskAgain, feedback) ==
    [confirmed |-> confirmed, dontAskAgain |-> dontAskAgain, feedback |-> feedback]

(* a confirmation with "don't ask again" sets the flag of the category      *)
FlagsAfterConfirmation(flags, dontAskAgain) ==
    IF dontAskAgain THEN [flags EXCEPT !.bashCommands = TRUE] ELSE flags

RejectedResult(feedback) ==
    Failure(IF feedback # None /\ feedback[1] # ""
            THEN feedback[1] ELSE "Command execution cancelled by user")

(* what exec reports for a child it killed at the timeout *)
TimedOut(command) ==
    [failed |-> TRUE, stdout |-> "", stderr |-> "", message |-> "Command failed: " \o command]

(* mutant: the error of exec is not caught *)
ExecResultOfSuccessOnly(outcome) ==
    LET output == outcome.stdout
                  \o (IF outcome.stderr # "" THEN "\nSTDERR: " \o outcome.stderr ELSE "")
    IN  Success(IF Trim(output) # "" THEN Trim(output)
                ELSE "Command executed successfully (no output)")

ExecResult(outcome) ==
    IF outcome.failed
    THEN Failure("Command failed: " \o outcome.message)
    ELSE LET output == outcome.stdout
                       \o (IF outcome.stderr # "" THEN "\nSTDERR: " \o outcome.stderr ELSE "")
         IN  Success(IF Trim(output) # "" THEN Trim(output)
                     ELSE "Command executed successfully (no output)")

(* mutant: the directory is recorded before process.chdir is tried *)
DirectoryRecordedFirst(changed, newDir, directory) == newDir

(* process.chdir(newDir); this.currentDirectory = process.cwd(): the        *)
(* assignment is not reached when chdir throws                              *)
DirectoryAfterChdir(changed, newDir, directory) ==
    IF changed THEN newDir ELSE directory

(* the part of execute behind the gates: "cd <dir>" changes the directory   *)
(* (process.chdir may throw), any other command is handed to exec.          *)
RunCommand(command, events) ==
    IF StartsWith(command, "cd ")
    THEN LET newDir == Trim(SubSeq(command, 4, Len(command))) IN
         \E changed \in BOOLEAN :
            /\ bashEvents' = Append(events, Event("chdir", changed))
            /\ currentDirectory' = DirectoryAfterChdir(changed, newDir, currentDirectory)
            /\ bashResult' =
                   Some(IF changed
                        THEN Success("Changed directory to: " \o newDir)
                        ELSE Failure("Cannot change directory: " \o "ENOENT"))
            /\ bashPc' = "idle"
    ELSE /\ bashEvents' = Append(events, Event("exec", TRUE))
         /\ bashPc' = "running"
         /\ bashResult' = None
         /\ UNCHANGED currentDirectory

(* the window of a tool that has just run all but one of the commands it   *)
(* may run in a minute                                                      *)
RecentCommands ==
    [k \in 1..(DefaultMaxCommands - 1) |-> [timestamp |-> 0, command |-> "ls"]]

(* the interface while the agent runs a tool: the turn has started, the     *)
(* stream has delivered a token count and a tool call, and the loop waits   *)
(* for the next event.                                                      *)
ToolRunning ==
    /\ chatHistory = <<UserEntry, ToolCallEntry("t1")>>
    /\ isProcessing = TRUE
    /\ isStreaming = TRUE
    /\ tokenCount = 1
    /\ streamingContentBuffer = ""
    /\ streamingUpdateTimer = "null"
    /\ streamingEntry = FALSE
    /\ pc = "loop"
    /\ chunk = [NoChunk EXCEPT !.type = "tool_calls", !.toolCalls = Some(<<"t1">>)]
    /\ trace = <<"token_count", "tool_calls">>
    /\ received = ""
    /\ effectStreaming = TRUE
    /\ appended = 0

InitBash ==
    /\ ToolRunning
    /\ confirmationOptions = None
    /\ commandHistory \in {<<>>, RecentCommands}
    /\ maxCommandsPerMinute = DefaultMaxCommands
    /\ windowMs = DefaultWindowMs
    /\ now = MaxNow
    /\ processingStartTime = 500
    /\ processingTime = (now - processingStartTime) \div 1000
    /\ confirmationResult = None
    /\ rateLog = <<>>
    /\ resetFrom = None
    /\ stats = None
    /\ bashPc = "idle"
    /\ bashCommand = ""
    /\ bashFlags = NoFlags
    /\ bashEvents = <<>>
    /\ bashResult = None
    /\ sessionFlags \in {[NoFlags EXCEPT !.allOperations = a] : a \in BOOLEAN}
    /\ currentDirectory = "/home"
    /\ CallIdle
    /\ TimerIdle

BashExecute ==
    /\ bashPc = "idle"
    /\ \E command \in BashCommands :
        LET validation     == CommandChecks[command].validation
            warningMsg     == CommandChecks[command].warningMsg
            rateLimitCheck == CanExecuteResult(commandHistory, now,
                                               maxCommandsPerMinute, windowMs)
            passed         == <<Event("validate", TRUE), Event("rate", TRUE)>>
        IN  /\ bashCommand' = command
            /\ bashFlags' = sessionFlags
            /\ confirmationResult' = None
            /\ IF IsBlocked(validation)
               THEN /\ bashEvents' = <<Event("validate", validation.isValid)>>
                    /\ bashResult' = Some(BlockedResult(warningMsg, validation))
                    /\ bashPc' = "idle"
                    /\ UNCHANGED <<commandHistory, rateLog, confirmationOptions,
                                   currentDirectory>>
               ELSE /\ Len(rateLog) < MaxBashCalls
                    /\ commandHistory' = CanExecuteHistory(commandHistory, command, now,
                                                           maxCommandsPerMinute, windowMs)
                    /\ rateLog' = Append(rateLog, [at |-> now, result |-> rateLimitCheck])
                    /\ IF ~rateLimitCheck.allowed
                       THEN /\ bashEvents' = <<Event("validate", TRUE), Event("rate", FALSE)>>
                            /\ bashResult' = Some(RateLimitedResult(rateLimitCheck))
                            /\ bashPc' = "idle"
                            /\ UNCHANGED <<confirmationOptions, currentDirectory>>
                       ELSE IF NeedsConfirmation(CommandChecks[command].highRisk,
                                                 sessionFlags)
                       THEN /\ bashEvents' = passed
                            /\ RequestConfirmation(
                                   ConfirmationRequest(command, currentDirectory,
                                                       warningMsg))
                            /\ UNCHANGED currentDirectory
                       ELSE /\ RunCommand(command, passed)
                            /\ UNCHANGED confirmationOptions
    /\ UNCHANGED <<maxCommandsPerMinute, windowMs, now, resetFrom, stats, sessionFlags>>
    /\ UNCHANGED <<loopVars, timeVars, callVars, timerVars>>

(* handleConfirmation: the operator confirms; execute resumes. *)
ConfirmOperation ==
    /\ bashPc = "confirming"
    /\ confirmationOptions # None
    /\ \E dontAskAgain \in BOOLEAN :
        /\ confirmationResult' = Some(Decision(TRUE, dontAskAgain, None))
        /\ sessionFlags' = FlagsAfterConfirmation(sessionFlags, dontAskAgain)
    /\ confirmationOptions' = None
    /\ RunCommand(bashCommand, Append(bashEvents, Event("confirm", TRUE)))
    /\ UNCHANGED <<bashCommand, bashFlags>>
    /\ UNCHANGED <<loopVars, rateVars, timeVars, callVars, timerVars>>

(* handleRejection: the operator rejects; execute resumes and returns. *)
RejectOperation ==
    /\ bashPc = "confirming"
    /\ confirmationOptions # None
    /\ \E feedback \in Feedbacks :
        /\ confirmationResult' = Some(Decision(FALSE, FALSE, feedback))
        /\ bashResult' = Some(RejectedResult(feedback))
    /\ confirmationOptions' = None
    /\ isProcessing' = FALSE
    /\ isStreaming' = FALSE
    /\ tokenCount' = 0
    /\ processingTime' = 0
    /\ processingStartTime' = 0
    /\ bashEvents' = Append(bashEvents, Event("confirm", FALSE))
    /\ bashPc' = "idle"
    /\ UNCHANGED <<bashCommand, bashFlags, sessionFlags, currentDirectory>>
    /\ UNCHANGED <<chatHistory, streamingContentBuffer, streamingUpdateTimer,
                   streamingEntry, pc, chunk, trace, received, effectStreaming,
                   appended>>
    /\ UNCHANGED <<rateVars, callVars, timerVars>>

(* the child process ends before the timeout. *)
ExecReturns ==
    /\ bashPc = "running"
    /\ \E outcome \in ExecOutcomes :
        bashResult' = Some(ExecResult(outcome))
    /\ bashPc' = "idle"
    /\ UNCHANGED <<bashCommand, bashFlags, bashEvents, sessionFlags, currentDirectory,
                   confirmationResult>>
    /\ UNCHANGED <<loopVars, confirmationOptions, rateVars, timeVars, callVars, timerVars>>

(* the timeout of exec expires first: the child is killed and the promise   *)
(* rejects with the error of a failed command.                              *)
ExecTimesOut ==
    /\ bashPc = "running"
    /\ bashResult' = Some(ExecResult(TimedOut(bashCommand)))
    /\ bashPc' = "idle"
    /\ UNCHANGED <<bashCommand, bashFlags, bashEvents, sessionFlags, currentDirectory,
                   confirmationResult>>
    /\ UNCHANGED <<loopVars, confirmationOptions, rateVars, timeVars, callVars, timerVars>>

NextBash ==
    BashExecute \/ ConfirmOperation \/ RejectOperation \/ ExecReturns \/ ExecTimesOut

SpecBash == InitBash /\ [][NextBash]_vars

Gates == {"validate", "rate", "confirm"}

Ran(events) == \E k \in 1..Len(events) : events[k].event \in {"chdir", "exec"}

Returned == bashPc = "idle" /\ bashResult # None

(* C19: execute runs a command (chdir or exec) only after validateCommand   *)
(* accepted it, then the rate limiter admitted it, then, if it was asked,   *)
(* the operator confirmed it; a gate that refuses is the last thing the     *)
(* call does: it has returned success = false, consulted no later gate and  *)
(* run nothing.  The commands validateCommand rejects are never run and     *)
(* never reach the limiter.                                                 *)
C19_GatesInOrderBeforeRun ==
    /\ \A k \in 1..Len(bashEvents) :
          LET e == bashEvents[k] IN
          /\ k = 1 <=> e.event = "validate"
          /\ e.event = "rate" => k = 2
          /\ e.event = "confirm" => (k = 3 /\ bashEvents[2].event = "rate")
          /\ e.event \in {"chdir", "exec"} =>
                /\ k = Len(bashEvents)
                /\ k \in {3, 4}
                /\ bashEvents[2].event = "rate"
                /\ \A j \in 1..(k - 1) : bashEvents[j].ok
          /\ (e.event \in Gates /\ ~e.ok) =>
                /\ k = Len(bashEvents)
                /\ Returned
                /\ ~bashResult[1].success
    /\ (bashEvents # <<>> /\ bashCommand \in {"", "rm -rf /", "chmod 777 /x"}) =>
          /\ bashEvents = <<Event("validate", FALSE)>>
          /\ Returned
          /\ ~bashResult[1].success

C19_Witness ==
    /\ bashCommand = "cd /tmp"
    /\ bashEvents = <<Event("validate", TRUE), Event("rate", TRUE),
                      Event("confirm", TRUE), Event("chdir", TRUE)>>
    /\ currentDirectory = "/tmp"
    /\ Len(commandHistory) = DefaultMaxCommands
    /\ bashResult = Some(Success("Changed directory to: /tmp"))

PassedRateLimit == Len(bashEvents) >= 2 /\ bashEvents[2] = Event("rate", TRUE)

ConfirmationAsked ==
    \/ bashPc = "confirming"
    \/ (Len(bashEvents) >= 3 /\ bashEvents[3].event = "confirm")

(* C20: a call that passed validation and the rate limit asks the operator  *)
(* exactly when the first whitespace-delimited token of the command is a    *)
(* high-risk verb or neither session flag (bashCommands, allOperations) was *)
(* set; so a high-risk command asks even with a flag set, and is run only   *)
(* after the operator confirmed.                                            *)
C20_ConfirmationIffHighRiskOrNoFlag ==
    PassedRateLimit =>
        LET highRisk == FirstWord(bashCommand) \in HIGH_RISK_COMMANDS IN
        /\ ConfirmationAsked <=>
              (highRisk \/ (~bashFlags.bashCommands /\ ~bashFlags.allOperations))
        /\ (highRisk /\ Ran(bashEvents)) => bashEvents[3] = Event("confirm", TRUE)
        /\ bashPc = "confirming" => confirmationOptions # None

C20_Witness ==
    /\ bashCommand = " rm x"
    /\ bashFlags.bashCommands
    /\ bashEvents = <<Event("validate", TRUE), Event("rate", TRUE),
                      Event("confirm", TRUE), Event("exec", TRUE)>>
    /\ bashPc = "running"

RejectStep ==
    /\ bashPc = "confirming"
    /\ confirmationResult' # None
    /\ ~confirmationResult'[1].confirmed

(* C21: when the operator rejects, the waiting execute returns success =    *)
(* false with the operator's feedback as error, or "Command execution       *)
(* cancelled by user" when none (or an empty one) was given; the command is *)
(* not run, directory and rate window stay as they were, and isProcessing,  *)
(* isStreaming, the token count and the elapsed time are reset.             *)
C21_RejectionReturnsFeedbackAndResets ==
    [][RejectStep =>
          LET feedback == confirmationResult'[1].feedback IN
          /\ bashPc' = "idle"
          /\ bashResult' # None
          /\ ~bashResult'[1].success
          /\ bashResult'[1].error =
                 IF feedback \in {None, Some("")}
                 THEN Some("Command execution cancelled by user")
                 ELSE feedback
          /\ ~Ran(bashEvents')
          /\ currentDirectory' = currentDirectory
          /\ commandHistory' = commandHistory
          /\ confirmationOptions' = None
          /\ ~isProcessing'
          /\ ~isStreaming'
          /\ tokenCount' = 0
          /\ processingTime' = 0
          /\ processingStartTime' = 0]_vars

C21_Witness ==
    /\ bashCommand = "rm x"
    /\ confirmationResult = Some(Decision(FALSE, FALSE, Some("not now")))
    /\ bashResult = Some(Failure("not now"))
    /\ bashEvents[Len(bashEvents)] = Event("confirm", FALSE)
    /\ ~isProcessing
    /\ processingTime = 0

-----------------------------------------------------------------------------
(* What the interface renders under the history *)

InputShown(options) == options = None

(* mutant: the spinner is rendered whatever the dialog *)
SpinnerShownWhileConfirming(options, processing, streaming) == processing \/ streaming

SpinnerShown(options, processing, streaming) ==
    options = None /\ (processing \/ streaming)

Outstanding == bashPc = "confirming"

-----------------------------------------------------------------------------
(* validateCommand applied to commands put together from fragments *)

Commands ==
    LET prefixes == {"", " "}
        heads    == {"", "ls", "rm -rf", "rm  -rf", "chmod 777", "curl x |", "eval",
                     "mkfs", "dd if=a", ">", ":(){"}
        tails    == {"", " /", " /*", " /tmp/*", " ~", " bash", " $(x)", " /dev/sda",
                     " :|:& };:"}
    IN  {p \o h \o t : p \in prefixes, h \in heads, t \in tails}

(* commands that carry a credential, with the parts of its value *)
LoggedCases ==
    LET prefixes == {"", "export ", "curl -H "}
        quoted   == {<<q, v>> : q \in {"", "\"", "'"}, v \in {"qqzz"}}
                    \cup {<<q, v>> : q \in {"\"", "'"}, v \in {"qq zz"}}
        values   == {qv[1] \o qv[2] \o qv[1] : qv \in quoted}
        shapes   == {n \o "=" \o v : n \in {"TOKEN", "API_KEY", "password", "KEY"},
                                     v \in values}
                    \cup {f \o sep \o v : f \in {"--token", "-key", "--password"},
                                          sep \in {"=", " "}, v \in values}
                    \cup {"git clone " \o scheme \o "u:" \o v \o "@h/r.git" :
                              scheme \in {"http://", "https://"}, v \in {"qqzz", "qq@zz"}}
    IN  {[command |-> p \o shape, parts |-> {"qq", "zz"}] : p \in prefixes, shape \in shapes}

InitValidate ==
    /\ LoopIdle
    /\ confirmationOptions = None
    /\ RateIdle
    /\ BashIdle
    /\ TimeIdle
    /\ called = ""
    /\ argument \in Commands \cup {c.command : c \in LoggedCases}
    /\ returned = None
    /\ TimerIdle

CallValidateCommand ==
    /\ called = ""
    /\ called' = "validateCommand"
    /\ returned' = Some(ValidateCommand(argument))
    /\ UNCHANGED <<argument, loopVars, confirmationOptions, rateVars, bashVars, timeVars,
                   timerVars>>

CallSanitizeCommandForLogging ==
    /\ called = ""
    /\ called' = "sanitizeCommandForLogging"
    /\ returned' = Some(SanitizeCommandForLogging(argument))
    /\ UNCHANGED <<argument, loopVars, confirmationOptions, rateVars, bashVars, timeVars,
                   timerVars>>

NextValidate == CallValidateCommand \/ CallSanitizeCommandForLogging

SpecValidate == InitValidate /\ [][NextValidate]_vars

LiteralsIn(command) ==
    {a \in 1..Len(DANGEROUS_COMMANDS) : Includes(Trim(command), DANGEROUS_COMMANDS[a].literal)}

PatternsIn(command) ==
    {a \in 1..Len(DANGEROUS_PATTERNS) : Test(DANGEROUS_PATTERNS[a].pattern, Trim(command))}

(* C23: validateCommand returns the outcome of the first check that        *)
(* applies: the empty trimmed command is invalid with "Empty command" and  *)
(* severity error; otherwise the first literal of the table the command    *)
(* contains gives the reason, with severity error; otherwise the first     *)
(* regex rule that matches gives reason and severity; otherwise the        *)
(* command is valid.                                                       *)
C23_FirstApplicableCheckWins ==
    called = "validateCommand" =>
        LET result   == returned[1]
            literals == LiteralsIn(argument)
            patterns == PatternsIn(argument)
        IN  /\ Trim(argument) = "" =>
                result = [isValid |-> FALSE, reason |-> Some("Empty command"),
                          severity |-> Some("error")]
            /\ (Trim(argument) # "" /\ literals # {}) =>
                /\ ~result.isValid
                /\ result.severity = Some("error")
                /\ \E a \in literals :
                    /\ \A b \in literals : a <= b
                    /\ result.reason = Some(DANGEROUS_COMMANDS[a].rule.reason)
            /\ (Trim(argument) # "" /\ literals = {} /\ patterns # {}) =>
                /\ ~result.isValid
                /\ \E a \in patterns :
                    /\ \A b \in patterns : a <= b
                    /\ result.reason = Some(DANGEROUS_PATTERNS[a].rule.reason)
                    /\ result.severity = Some(DANGEROUS_PATTERNS[a].rule.severity)
            /\ (Trim(argument) # "" /\ literals = {} /\ patterns = {}) =>
                result = [isValid |-> TRUE, reason |-> None, severity |-> None]

(* a command that contains two literals and matches two regex rules *)
C23_Witness ==
    /\ called = "validateCommand"
    /\ argument = " rm -rf /*"
    /\ LiteralsIn(argument) = {1, 2}
    /\ PatternsIn(argument) = {1, 2}
    /\ returned = Some(Invalid(Rule("error", "Attempting to delete root directory")))

-----------------------------------------------------------------------------
(* C24: a command that validateCommand classifies with severity warning is *)
(* not refused at the validation gate of execute: the call goes on to the  *)
(* rate limiter and the operator's confirmation.                           *)
C24_WarningSeverityReachesConfirmation ==
    (bashEvents # <<>> /\ CommandChecks[bashCommand].validation.severity = Some("warning")) =>
        bashEvents[1] = Event("validate", TRUE)

-----------------------------------------------------------------------------
(* C25: sanitizeCommandForLogging masks every credential value: the output *)
(* for a command with a KEY/TOKEN/PASSWORD/SECRET assignment, a credential *)
(* flag or URL credentials contains "***" and no part of the value, quoted *)
(* or not; a command without credentials is returned unchanged.            *)
C25_EveryCredentialMasked ==
    called = "sanitizeCommandForLogging" =>
        /\ \A c \in LoggedCases :
              c.command = argument =>
                 /\ Includes(returned[1], "***")
                 /\ \A part \in c.parts : ~Includes(returned[1], part)
        /\ argument \in Commands => returned[1] = argument

-----------------------------------------------------------------------------
(* exec settles at the timeout at the latest, and the operator decides every *)
(* request put to them                                                       *)
SpecBashFair ==
    /\ SpecBash
    /\ WF_vars(ExecTimesOut)
    /\ WF_vars(ConfirmOperation \/ RejectOperation)

(* C26: every call of execute returns a ToolResult: a call that is waiting *)
(* for the decision or for the child process eventually returns; a child   *)
(* still running at the timeout is killed and the call returns success =   *)
(* false; and every result with success = false carries an error text and  *)
(* no output, whichever gate or failure produced it.                       *)
C26_ExecuteAlwaysReturns ==
    /\ (bashPc # "idle") ~> (bashPc = "idle" /\ bashResult # None)
    /\ []((bashPc = "idle" /\ bashEvents # <<>>) =>
             /\ bashResult # None
             /\ ~bashResult[1].success =>
                   (bashResult[1].error # None /\ bashResult[1].error[1] # ""))
    /\ [][ExecTimesOut =>
             (bashPc' = "idle" /\ ~bashResult'[1].success
              /\ bashResult'[1].error = Some("Command failed: Command failed: " \o bashCommand))]_vars

C26_Witness ==
    /\ bashPc = "idle"
    /\ bashCommand = "rm x"
    /\ bashEvents = <<Event("validate", TRUE), Event("rate", TRUE), Event("confirm", TRUE),
                      Event("exec", TRUE)>>
    /\ bashResult = Some(Failure("Command failed: Command failed: rm x"))

-----------------------------------------------------------------------------
(* C27: the working directory changes only in the step in which a          *)
(* "cd <dir>" command that validation accepted, the limiter admitted and,  *)
(* if asked, the operator confirmed, is carried out and process.chdir      *)
(* succeeds.  A blocked, rate-limited or rejected call, a failed cd and    *)
(* any other command leave it unchanged.                                   *)
C27_DirectoryChangesOnlyBySuccessfulCd ==
    [][LET last == bashEvents'[Len(bashEvents')]
           done == /\ bashEvents' # <<>>
                   /\ bashEvents' # bashEvents
                   /\ last = Event("chdir", TRUE)
       IN  /\ currentDirectory' # currentDirectory =>
                /\ done
                /\ StartsWith(bashCommand', "cd ")
                /\ \A k \in 1..(Len(bashEvents') - 1) :
                      bashEvents'[k].event \in Gates /\ bashEvents'[k].ok
                /\ bashEvents'[1].event = "validate" /\ bashEvents'[2].event = "rate"
                /\ bashResult' # None /\ bashResult'[1].success
           /\ (bashPc' = "idle" /\ bashResult' # None /\ ~bashResult'[1].success) =>
                currentDirectory' = currentDirectory]_vars

C27_Witness ==
    /\ currentDirectory = "/tmp"
    /\ bashCommand = "ls"
    /\ bashResult # None
    /\ ~bashResult[1].success

-----------------------------------------------------------------------------
(* Tool dispatch (executeTool of the agent)                                 *)

ToolRegistry ==
    {"view_file", "create_file", "str_replace_editor", "edit_file", "bash", "search",
     "create_todo_list", "update_todo_list"}

ExternalToolHandler == "executeMCPTool"

(* a tool call: its name, whether its arguments parse as JSON, and what the *)
(* handler it reaches would do                                              *)
ToolCalls ==
    [name : ToolRegistry \cup {"mcp__linear__create_issue", "mcp__a__b", "mcp_x",
                               "unknown_tool", ""},
     parses : BOOLEAN,
     handler : {"succeeds", "fails", "raises"}]

HandlerResult(handler) ==
    CASE handler = "succeeds" -> Some(Success("done"))
      [] handler = "fails"    -> Some(Failure("File not found"))
      [] handler = "raises"   -> None

(* mutant: the fault of a handler is not caught *)
ExecuteToolUncaught(toolCall) ==
    IF ~toolCall.parses
    THEN [routedTo |-> None, result |-> Some(Failure("Tool execution error: Unexpected token"))]
    ELSE IF toolCall.name \in ToolRegistry
    THEN [routedTo |-> Some(toolCall.name), result |-> HandlerResult(toolCall.handler)]
    ELSE IF StartsWith(toolCall.name, "mcp__")
    THEN [routedTo |-> Some(ExternalToolHandler), result |-> HandlerResult(toolCall.handler)]
    ELSE [routedTo |-> None, result |-> Some(Failure("Unknown tool: " \o toolCall.name))]

(* the handler the name resolves to, and the ToolResult returned; None is   *)
(* a fault that leaves executeTool                                          *)
ExecuteTool(toolCall) ==
    LET caught(result) ==
            IF result = None THEN Some(Failure("Tool execution error: File system error"))
            ELSE result
    IN  IF ~toolCall.parses
        THEN [routedTo |-> None,
              result |-> Some(Failure("Tool execution error: Unexpected token"))]
        ELSE IF toolCall.name \in ToolRegistry
        THEN [routedTo |-> Some(toolCall.name),
              result |-> caught(HandlerResult(toolCall.handler))]
        ELSE IF StartsWith(toolCall.name, "mcp__")
        THEN [routedTo |-> Some(ExternalToolHandler),
              result |-> caught(HandlerResult(toolCall.handler))]
        ELSE [routedTo |-> None, result |-> Some(Failure("Unknown tool: " \o toolCall.name))]

InitRouter ==
    /\ LoopIdle
    /\ confirmationOptions = None
    /\ RateIdle
    /\ BashIdle
    /\ TimeIdle
    /\ called = ""
    /\ argument \in ToolCalls
    /\ returned = None
    /\ TimerIdle

CallExecuteTool ==
    /\ called = ""
    /\ called' = "executeTool"
    /\ returned' = Some(ExecuteTool(argument))
    /\ UNCHANGED <<argument, loopVars, confirmationOptions, rateVars, bashVars, timeVars,
                   timerVars>>

SpecRouter == InitRouter /\ [][CallExecuteTool]_vars

(* C28: executeTool returns a ToolResult for every tool call; arguments    *)
(* that do not parse, a name that resolves to no tool and a handler that   *)
(* raises give success = false with an error text; a name of the form      *)
(* mcp__<server>__<tool> whose arguments parse reaches the external-tool   *)
(* handler.                                                                *)
C28_DispatchNeverPropagates ==
    called = "executeTool" =>
        LET out      == returned[1]
            failed   == /\ out.result # None
                        /\ ~out.result[1].success
                        /\ out.result[1].error # None
                        /\ out.result[1].error[1] # ""
            resolves == argument.name \in ToolRegistry \/ StartsWith(argument.name, "mcp__")
        IN  /\ out.result # None
            /\ ~argument.parses => failed
            /\ ~resolves => (failed /\ out.routedTo = None)
            /\ (argument.parses /\ resolves /\ argument.handler = "raises") => failed
            /\ (argument.parses /\ StartsWith(argument.name, "mcp__")) =>
                   out.routedTo = Some(ExternalToolHandler)

C28_Witness ==
    /\ called = "executeTool"
    /\ argument = [name |-> "mcp__linear__create_issue", parses |-> TRUE, handler |-> "raises"]
    /\ returned[1].routedTo = Some(ExternalToolHandler)
    /\ ~returned[1].result[1].success

-----------------------------------------------------------------------------
(* C29: a content event that carries a delta and finds no streaming entry  *)
(* active (the first of the turn, or the first after a tool_calls or       *)
(* tool_result event that ended the entry) appends, in that same step, one *)
(* assistant entry with isStreaming = true whose content is exactly the    *)
(* delta; the buffer, the timer handle and the scheduled callbacks are     *)
(* untouched.  A content event without text changes nothing.               *)
C29_FirstDeltaOpensStreamingEntry ==
    [][(Consumes("content") /\ ~streamingEntry) =>
          LET d == chunk'.content
              n == Len(chatHistory)
          IN  /\ streamingContentBuffer' = streamingContentBuffer
              /\ streamingUpdateTimer' = streamingUpdateTimer
              /\ pendingTimeouts' = pendingTimeouts
              /\ timerHandle' = timerHandle
              /\ IF d = ""
                 THEN chatHistory' = chatHistory /\ ~streamingEntry'
                 ELSE /\ streamingEntry'
                      /\ Len(chatHistory') = n + 1
                      /\ SubSeq(chatHistory', 1, n) = chatHistory
                      /\ chatHistory'[n + 1].type = "assistant"
                      /\ chatHistory'[n + 1].content = d
                      /\ chatHistory'[n + 1].isStreaming
                      /\ chatHistory'[n + 1].toolCalls = None]_vars

C29_Witness ==
    /\ Len(trace) >= 3
    /\ trace[Len(trace)] = "content"
    /\ trace[Len(trace) - 1] = "tool_result"
    /\ trace[1] = "content"
    /\ chunk.content # ""
    /\ Len(chatHistory) = 3
    /\ chatHistory[3].type = "assistant"
    /\ chatHistory[3].content = chunk.content
    /\ chatHistory[3].isStreaming
    /\ streamingEntry

(* C30: a content event that carries a delta while a streaming entry is    *)
(* active puts the delta at the end of the buffer, leaves the history as   *)
(* it is, cancels the callback the handle stands for and schedules a new   *)
(* one with a delay of 50; nothing else schedules a callback, so at most   *)
(* one is scheduled at any time, the handle holds it, and it is the one of *)
(* the most recent buffered delta.  A content event without text changes   *)
(* nothing.                                                                *)
C30_BufferedDeltaRestartsTimer ==
    [][LET buffers == Consumes("content") /\ streamingEntry /\ chunk'.content # ""
           timeout == [setAt |-> Len(trace'), delay |-> 50]
       IN  /\ buffers =>
                /\ streamingContentBuffer' = streamingContentBuffer \o chunk'.content
                /\ chatHistory' = chatHistory
                /\ streamingEntry'
                /\ pendingTimeouts' = {timeout}
                /\ timerHandle' = Some(timeout)
           /\ (Consumes("content") /\ streamingEntry /\ chunk'.content = "") =>
                /\ streamingContentBuffer' = streamingContentBuffer
                /\ chatHistory' = chatHistory
                /\ pendingTimeouts' = pendingTimeouts
                /\ timerHandle' = timerHandle
           /\ ~buffers => pendingTimeouts' \subseteq pendingTimeouts
           /\ Cardinality(pendingTimeouts) <= 1
           /\ Cardinality(pendingTimeouts') <= 1
           /\ pendingTimeouts' # {} =>
                (streamingUpdateTimer' = "armed" /\ pendingTimeouts' = {timerHandle'[1]})]_vars

C30_Witness ==
    /\ trace = <<"content", "content", "content">>
    /\ Len(streamingContentBuffer) = 2
    /\ pendingTimeouts = {[setAt |-> 3, delay |-> 50]}
    /\ timerHandle = Some([setAt |-> 3, delay |-> 50])
    /\ Len(chatHistory) = 2

-----------------------------------------------------------------------------
(* The stream loop with a clock: content events arrive PaceGaps apart and   *)
(* a setTimeout callback runs when its delay has passed.  Each delta is the *)
(* time of its arrival, written with four digits.                           *)

MaxPaceNow == 150

PaceGaps == {10, 25}

Stamp(t) == ToString(1000 + t)

PaceTick ==
    /\ pc = "loop"
    /\ \E gap \in PaceGaps :
        /\ now + gap <= MaxPaceNow
        /\ \A timeout \in pendingTimeouts : now + gap <= timeout.setAt + timeout.delay
        /\ now' = now + gap
    /\ UNCHANGED <<commandHistory, maxCommandsPerMinute, windowMs, rateLog, resetFrom, stats>>
    /\ UNCHANGED <<loopVars, confirmationOptions, bashVars, timeVars, callVars, timerVars>>

PacedContent == ContentEvent(now, {Stamp(now)})

PacedTimerFires ==
    TimerFiresFor({timeout \in pendingTimeouts : timeout.setAt + timeout.delay <= now})

NextPace == Start \/ PaceTick \/ PacedContent \/ PacedTimerFires

SpecPace == Init /\ [][NextPace]_vars

(* the arrival time of the oldest delta in the buffer *)
OldestBufferedAt ==
    CHOOSE t \in 0..MaxPaceNow : Stamp(t) = SubSeq(streamingContentBuffer, 1, 4)

(* C31: no buffered delta stays out of the history for more than 50        *)
(* time-units after it was buffered, however closely the following deltas  *)
(* are spaced.                                                             *)
C31_BufferedAtMostFifty ==
    streamingContentBuffer # "" => now - OldestBufferedAt <= 50

-----------------------------------------------------------------------------
(* C32: an assistant entry whose isStreaming flag is false keeps its       *)
(* content, its type and its flag in every step, and a user entry is never *)
(* modified; the only content of an assistant entry that a step changes is *)
(* that of the last entry while it is streaming, and the change puts the   *)
(* buffered text at its end.                                               *)
C32_FinishedEntriesAreFrozen ==
    [][/\ Len(chatHistory') >= Len(chatHistory)
       /\ \A i \in 1..Len(chatHistory) :
             LET e == chatHistory[i]
                 f == chatHistory'[i]
             IN  /\ e.type = "user" => f = e
                 /\ (e.type = "assistant" /\ ~e.isStreaming) =>
                       (f.type = "assistant" /\ f.content = e.content /\ ~f.isStreaming)
                 /\ (e.type = "assistant" /\ f.content # e.content) =>
                       /\ e.isStreaming
                       /\ i = Len(chatHistory)
                       /\ f.content = e.content \o streamingContentBuffer]_vars

C32_Witness ==
    /\ Len(chatHistory) = 3
    /\ chatHistory[2].type = "assistant"
    /\ ~chatHistory[2].isStreaming
    /\ chatHistory[2].content = "1"
    /\ chatHistory[3].type = "assistant"
    /\ chatHistory[3].content = "34"

-----------------------------------------------------------------------------
(* C33: in every reachable state of the stream loop an entry with          *)
(* isStreaming = true is the last entry of the history.                    *)
C33_StreamingEntryIsLast ==
    \A i \in 1..Len(chatHistory) :
        chatHistory[i].isStreaming => i = Len(chatHistory)

-----------------------------------------------------------------------------
(* The stream loop, over streams of up to MaxQuietEvents events, with the  *)
(* JavaScript timer queue's guarantee: a timeout that stays scheduled is   *)
(* eventually run.  Events are under no fairness: the stream may stop      *)
(* yielding at any point.                                                  *)
MaxQuietEvents == 3

MoreEvents == Len(trace) < MaxQuietEvents

QuietContent == MoreEvents /\ OnContent

QuietTokenCount == MoreEvents /\ OnTokenCount

QuietToolCalls == MoreEvents /\ OnToolCalls

QuietToolResult == MoreEvents /\ OnToolResult

QuietDone == MoreEvents /\ OnDone

NextQuiet ==
    \/ Start
    \/ QuietContent
    \/ QuietTokenCount
    \/ QuietToolCalls
    \/ QuietToolResult
    \/ QuietDone
    \/ StreamEnds
    \/ Fault
    \/ TimerFires
    \/ StreamingEffect

SpecQuiet == Init /\ [][NextQuiet]_vars /\ WF_vars(TimerFires)

TimerPendingWhileBuffered ==
    streamingContentBuffer # "" => pendingTimeouts # {}

(* C34: whenever the buffer is non-empty a timeout is scheduled, and       *)
(* therefore, whether or not further events arrive, a non-empty buffer is  *)
(* eventually emptied.                                                     *)
C34_BufferNeverStranded ==
    /\ []TimerPendingWhileBuffered
    /\ (streamingContentBuffer # "") ~> (streamingContentBuffer = "")

C34_Witness ==
    /\ trace = <<"content", "content">>
    /\ pc = "loop"
    /\ streamingContentBuffer = ""
    /\ streamingUpdateTimer = "null"
    /\ pendingTimeouts = {}
    /\ LastIsStreaming(chatHistory)
    /\ chatHistory[Len(chatHistory)].content = "12"

-----------------------------------------------------------------------------
(* C35: when the event loop of a turn has finished, by exhaustion of the   *)
(* stream or by a caught fault, isProcessing and isStreaming are both      *)
(* false and no history entry is marked isStreaming.                       *)
C35_FinishedTurnIsQuiet ==
    pc = "finished" =>
        /\ ~isProcessing
        /\ ~isStreaming
        /\ ~AnyStreaming(chatHistory)

-----------------------------------------------------------------------------
(* C36: in every reachable state, if some history entry has isStreaming =  *)
(* true then the isStreaming indicator is true.                            *)
C36_IndicatorCoversStreamingEntries ==
    AnyStreaming(chatHistory) => isStreaming

-----------------------------------------------------------------------------
(* C37: a call of execute records one entry, stamped with the time of the  *)
(* call, exactly when validateCommand accepted the command and the limiter *)
(* admitted it.  A command that validateCommand blocks leaves the window   *)
(* and the limiter untouched and returns the validation message; the steps *)
(* after admission (confirmation, rejection, the end of the child process, *)
(* its timeout) leave the recorded entry in place.                         *)
C37_RecordedIffValidatedAndAdmitted ==
    [][IF bashPc = "idle"
       THEN LET command   == bashCommand'
                check     == CommandChecks[command]
                validated == check.validation.isValid
                recent    == Unexpired(commandHistory, now, windowMs)
                admitted  == validated /\ Len(recent) < maxCommandsPerMinute
            IN  /\ admitted =>
                      /\ commandHistory' =
                            Append(recent, [timestamp |-> now, command |-> command])
                      /\ PassedRateLimit'
                /\ (validated /\ ~admitted) =>
                      /\ commandHistory' = recent
                      /\ bashEvents' = <<Event("validate", TRUE), Event("rate", FALSE)>>
                /\ ~validated =>
                      /\ commandHistory' = commandHistory
                      /\ rateLog' = rateLog
                      /\ bashEvents' = <<Event("validate", FALSE)>>
                      /\ bashResult' = Some(BlockedResult(check.warningMsg,
                                                          check.validation))
       ELSE /\ commandHistory' = commandHistory
            /\ commandHistory[Len(commandHistory)] =
                  [timestamp |-> now, command |-> bashCommand]]_vars

C37_Witness ==
    /\ bashCommand = "rm x"
    /\ bashEvents = <<Event("validate", TRUE), Event("rate", TRUE),
                      Event("confirm", FALSE)>>
    /\ Returned
    /\ Len(commandHistory) = DefaultMaxCommands
    /\ commandHistory[DefaultMaxCommands] = [timestamp |-> now, command |-> "rm x"]

-----------------------------------------------------------------------------
GetStatsStep == stats' # stats /\ stats' # None

RejectedStep == CanExecuteStep /\ ~rateLog'[Len(rateLog')].result.allowed

(* C38: a rejected canExecute call leaves as recorded entries exactly the  *)
(* unexpired ones from before the call; every recorded timestamp is the    *)
(* time of an admitted call, so rejected attempts do not move the time at  *)
(* which the oldest entry expires; getStats changes nothing of the limiter.*)
C38_RejectionRecordsNothing ==
    /\ [](\A i \in 1..Len(commandHistory) :
             \E k \in 1..Len(rateLog) :
                /\ rateLog[k].result.allowed
                /\ rateLog[k].at = commandHistory[i].timestamp)
    /\ [][/\ RejectedStep =>
               commandHistory' = Unexpired(commandHistory, now, windowMs)
          /\ GetStatsStep =>
               UNCHANGED <<commandHistory, maxCommandsPerMinute, windowMs, rateLog>>]_vars

C38_Witness ==
    /\ windowMs = 1000
    /\ maxCommandsPerMinute = 1
    /\ Len(rateLog) = 4
    /\ rateLog[1].result.allowed
    /\ ~rateLog[2].result.allowed
    /\ ~rateLog[3].result.allowed
    /\ rateLog[3].at = 500
    /\ rateLog[4].result.allowed
    /\ rateLog[4].at = 1000
    /\ stats # None
    /\ commandHistory = <<[timestamp |-> 1000, command |-> "ls"]>>

====
